---- MODULE Spec2Model ----
(***************************************************************************)
(* MaxScale: the read/write split router session (RWSplitSession) with     *)
(* its statement queue and transaction replay, and the MariaDB client      *)
(* protocol's COM_CHANGE_USER handling.                                    *)
(*                                                                         *)
(* One client session is modelled.  A handler of the code (routeQuery,     *)
(* clientReply, handleError, ...) is an operator from a world record to a  *)
(* world record, so that a handler that calls another handler is one       *)
(* atomic step, as it is on the single-threaded worker that owns the       *)
(* session.  The world record w has the fields                             *)
(*    w.r  the RWSplitSession object       (variable rses)                 *)
(*    w.b  the RWBackend objects           (variable backends)             *)
(*    w.s  the MXS_SESSION object          (variable session)              *)
(*    w.c  what the client has sent/seen   (variable client)               *)
(*    w.d  the delayed routing calls       (variable delayed)              *)
(*    w.h  the history variable            (variable hist)                 *)
(*    w.rv the return value of the handler                                 *)
(*    w.p  the MySQLProtocol of the client (variable proto)                *)
(*    w.pkt the packet route_by_statement() is about to route              *)
(* COM_CHANGE_USER is the one session command of the model.  Causal reads  *)
(* and optimistic transactions are on in the specifications SpecCausal and *)
(* SpecOtrx and off in the others.  LOAD DATA LOCAL INFILE and statements  *)
(* of 2^24-1 bytes or more are not part of the model: the query classifier *)
(* reports neither an active LOAD DATA nor a large query.  A service has   *)
(* two servers, and three in the specifications SpecSlaves and SpecRanked. *)
(*                                                                         *)
(* The parts of the core and of the client protocol that do not depend on  *)
(* a router session have variables of their own:                           *)
(*    service  the Service object: version string, parameters, persisted   *)
(*             configuration, loaded users and reload rate limits          *)
(*    server   the Server objects: version, parameters, users              *)
(*    dcb      the client DCB: the handshake sent, the authentication      *)
(*             state of its MySQLProtocol, the last KILL statement         *)
(*    runtime  the result of the last runtime alteration                   *)
(*    now      the clock, in seconds                                       *)
(* SpecVersion is the version string of the handshake, SpecKill the KILL   *)
(* statements the protocol handles itself, SpecAlter the alteration of     *)
(* parameters at runtime and SpecAuth the authentication of a client with  *)
(* the reloading of users.  Texts that the code scans are sequences of     *)
(* one-character strings.  SSL is not part of the model.                   *)
(* SpecIgnorable is Spec with the errors of a backend that the router      *)
(* ignores (deadlock rollbacks, Galera errors).                            *)
(*                                                                         *)
(* Three more parts stand alone:                                           *)
(*    mon      the manual command of the MariaDB monitor, with the monitor *)
(*             thread and the threads that submit commands, one step for a *)
(*             critical section or an access without the mutex             *)
(*             (SpecMonitor; SpecMonitorLive with a fair scheduler)        *)
(*    objects  the listeners, servers, filters, the monitor and the        *)
(*             service that config_runtime creates and destroys            *)
(*             (SpecObjects)                                               *)
(*    hintses  a session of the hint router with two backends (SpecHint)   *)
(***************************************************************************)
EXTENDS Integers, Sequences, FiniteSets, TLC

\* ---------------------------------------------------------------- bounds
\* Number of packets the client sends in one session.
MaxStmts == 2
\* Number of backend connection failures in one session.
MaxFails == 2
\* Number of packets in the result of a read.
MaxPkts == 2

\* ------------------------------------------------------------- constants
\* The two values of trx_max_size that are tried (bytes).
SmallTrxSize == 1
BigTrxSize == 64
\* delayed_retry_timeout, in units of one retry_query() call.
RetryTimeout == 2
\* Error numbers sent to the client.
ER_TRX_REPLAY == 1927
ER_READ_ONLY == 1290
ER_BACKEND == 2003
ER_ACCESS_DENIED == 1045

\* The servers of a service: two, or three.
Servers == {"A", "B"}
ManyServers == {"A", "B", "C"}
NoBackend == "none"
Bytes == {0, 1}
StmtKinds == {"begin", "read", "write", "commit"}

NoStmt == [id |-> 0, kind |-> "none", replayed |-> FALSE]

\* The user and the default database the client has authenticated with
\* when the session starts.  The COM_CHANGE_USER that is the n-th packet
\* of the client names user n and database n.
FirstUser == 0
ChangeUserName(q) == q.id
ChangeUserDb(q) == q.id

\* gwbuf_length() of a statement, in the unit trx_max_size is measured in.
StmtLen(q) ==
    IF q.kind = "none" THEN 0
    ELSE IF q.kind \in {"begin", "commit"} THEN 1 ELSE 2

VARIABLES
    m_config,   \* Config of the router instance, copied to the session
    role,       \* per server: the role flags the monitor has written
    rses,       \* the RWSplitSession
    backends,   \* per backend: the RWBackend of this session
    session,    \* the MXS_SESSION: lifecycle and transaction state
    client,     \* the client side: packets sent, replies and errors seen
    delayed,    \* session_delay_routing(): statements to be routed later
    proto,      \* the MySQLProtocol of the client connection
    hist,       \* history of the replay in progress (for the properties)
    service,    \* the Service object the listener belongs to
    server,     \* per server: what the Server object tells of the server
    dcb,        \* a client connection before its session is routed
    runtime,    \* config_runtime: the result of the last alteration
    now,        \* time(NULL), in seconds since the start of MaxScale
    mon,        \* MariaDBMonitor: m_manual_cmd and the threads that use it
    objects,    \* the listeners, services, servers, filters and monitors
    hintses     \* the HintRouterSession and its client

\* The variables of the monitor, the runtime configuration and the hint
\* router; the variables of the core, which the router session leaves alone.
ext_vars == <<mon, objects, hintses>>
core_vars == <<service, server, dcb, runtime, now, ext_vars>>
vars == <<m_config, role, rses, backends, session, client, delayed, proto, hist,
          service, server, dcb, runtime, now, mon, objects, hintses>>

\* ------------------------------------------------- the advertised version
\* A version string is a sequence of characters.
Prefix555 == <<"5", ".", "5", ".", "5", "-">>
\* DEFAULT_VERSION_STRING, without the version of MaxScale that follows.
DEFAULT_VERSION_STRING == Prefix555 \o <<"1", "0", ".", "2", ".", "1", "2">>
NoVersion == <<>>
\* SERVER::Version: the string the server has reported and the number
\* made of it (major * 10000 + minor * 100 + patch); 0 when not known.
UnknownVersion == [version_string |-> NoVersion, total |-> 0]
ServerVersions ==
    {[version_string |-> <<"1", "0", ".", "2", ".", "9">>, total |-> 100209],
     [version_string |-> <<"5", ".", "7", ".", "1">>, total |-> 50701],
     [version_string |-> <<"8", ".", "0", ".", "3">>, total |-> 80003]}
\* The values of version_string a service is configured with.
VersionParams == {NoVersion} \cup {v.version_string : v \in ServerVersions}

\* get_version_string(MXS_CONFIG_PARAMETER*) of service.cc: every version
\* string that does not start with '5' gets the prefix.
Service_get_version_string(version_string) ==
    IF version_string # NoVersion /\ version_string[1] # "5"
    THEN Prefix555 \o version_string
    ELSE version_string

\* The loop of get_version_string(SERVICE*): the version string of the
\* reachable server with the smallest known version, or the default.
smallest_found ==
    LET known == {b \in DOMAIN server : server[b].version.total > 0}
    IN  IF known = {} THEN DEFAULT_VERSION_STRING
        ELSE server[CHOOSE b \in known :
                       \A c \in known :
                          server[b].version.total <= server[c].version.total
                   ].version.version_string

\* rval before the prefix is looked at.
version_rval ==
    IF service.m_version_string # NoVersion THEN service.m_version_string
    ELSE smallest_found

\* Variant: the prefix only for a version of MariaDB 10.
get_version_string_10 ==
    IF /\ Len(version_rval) >= 3
       /\ SubSeq(version_rval, 1, 3) = <<"1", "0", ".">>
    THEN Prefix555 \o version_rval
    ELSE version_rval

\* get_version_string(SERVICE*) of the client protocol.
get_version_string ==
    IF version_rval[1] # "5" THEN Prefix555 \o version_rval ELSE version_rval

\* ------------------------------------------------------- the KILL parser
\* The text of a query is a sequence of characters.
WORD_KILL == <<"K", "I", "L", "L">>
WORD_CONNECTION == <<"C", "O", "N", "N", "E", "C", "T", "I", "O", "N">>
WORD_QUERY == <<"Q", "U", "E", "R", "Y">>
WORD_HARD == <<"H", "A", "R", "D">>
WORD_SOFT == <<"S", "O", "F", "T">>
WORD_USER == <<"U", "S", "E", "R">>
DELIM == {" ", "\n", "\t"}
MYSQL_HEADER_LEN == 4
\* sizeof("KILL 1") - 1 and sizeof("KILL CONNECTION 12345678901234567890 ;")
SHORTEST_KILL == 6
LONGEST_KILL == 39

\* toupper() for the letters of the inputs.
Upper(c) ==
    CASE c = "k" -> "K" [] c = "i" -> "I" [] c = "l" -> "L"
      [] c = "u" -> "U" [] c = "s" -> "S" [] c = "e" -> "E" [] c = "r" -> "R"
      [] OTHER -> c

\* strncasecmp(token, WORD, sizeof(WORD) - 1) == 0
strncasecmp0(token, word) ==
    /\ Len(token) >= Len(word)
    /\ \A i \in 1..Len(word) : Upper(token[i]) = word[i]

\* strtok_r(): the tokens of a text, separated by runs of delimiters.
TokLen(text) ==
    IF \E i \in 1..Len(text) : text[i] \in DELIM
    THEN (CHOOSE i \in 1..Len(text) :
             /\ text[i] \in DELIM
             /\ \A j \in 1..(i - 1) : text[j] \notin DELIM) - 1
    ELSE Len(text)

RECURSIVE strtok_r(_)
strtok_r(text) ==
    IF text = <<>> THEN <<>>
    ELSE IF text[1] \in DELIM THEN strtok_r(Tail(text))
    ELSE <<SubSeq(text, 1, TokLen(text))>>
             \o strtok_r(SubSeq(text, TokLen(text) + 1, Len(text)))

\* strtoll(token, &endptr, 0) for a token without a sign and without the
\* prefix 0x: the digits at the start, read in base 8 after a leading 0
\* and in base 10 otherwise.  The inputs stay far below LLONG_MAX.
DigitValue(c) ==
    CASE c = "0" -> 0 [] c = "1" -> 1 [] c = "2" -> 2 [] c = "3" -> 3
      [] c = "4" -> 4 [] c = "5" -> 5 [] c = "6" -> 6 [] c = "7" -> 7
      [] c = "8" -> 8 [] c = "9" -> 9 [] OTHER -> 10

strtoll_base(token) ==
    IF Len(token) >= 2 /\ token[1] = "0" THEN 8 ELSE 10

\* The number of characters strtoll() consumes.
strtoll_end(token) ==
    LET base == strtoll_base(token)
        bad == {i \in 1..Len(token) : DigitValue(token[i]) >= base}
    IN  IF bad = {} THEN Len(token)
        ELSE (CHOOSE i \in bad : \A j \in bad : i <= j) - 1

RECURSIVE strtoll_value(_, _, _)
strtoll_value(token, n, base) ==
    IF n = 0 THEN 0
    ELSE strtoll_value(token, n - 1, base) * base + DigitValue(token[n])

strtoll(token) ==
    [l |-> strtoll_value(token, strtoll_end(token), strtoll_base(token)),
     endptr |-> strtoll_end(token)]

\* extract_user(): the token up to the first ';'.
extract_user(token) ==
    IF \E i \in 1..Len(token) : token[i] = ";"
    THEN SubSeq(token, 1,
                (CHOOSE i \in 1..Len(token) :
                    /\ token[i] = ";"
                    /\ \A j \in 1..(i - 1) : token[j] # ";") - 1)
    ELSE token

\* One turn of the loop of parse_kill_query(): p is the state of the
\* parser and token the current token; next tells whether the next token
\* is fetched.
kill_parse_token(p, token) ==
    CASE p.state = "KILL" ->
            IF strncasecmp0(token, WORD_KILL)
            THEN [p EXCEPT !.state = "CONN_QUERY", !.next = TRUE]
            ELSE [p EXCEPT !.error = TRUE]
      [] p.state = "CONN_QUERY" ->
            LET p1 == IF strncasecmp0(token, WORD_QUERY)
                      THEN [p EXCEPT !.kill_type =
                                        (@ \ {"KT_CONNECTION"}) \cup {"KT_QUERY"},
                                     !.next = TRUE]
                      ELSE IF strncasecmp0(token, WORD_CONNECTION)
                      THEN [p EXCEPT !.next = TRUE]
                      ELSE p
            IN  IF strncasecmp0(token, WORD_HARD)
                THEN [p1 EXCEPT !.kill_type = @ \cup {"KT_HARD"}, !.next = TRUE]
                ELSE IF strncasecmp0(token, WORD_SOFT)
                THEN [p1 EXCEPT !.kill_type = @ \cup {"KT_SOFT"}, !.next = TRUE]
                ELSE [p1 EXCEPT !.state = "ID"]
      [] p.state = "ID" ->
            IF strncasecmp0(token, WORD_USER)
            THEN [p EXCEPT !.state = "USER", !.next = TRUE]
            ELSE LET r == strtoll(token)
                 IN  IF \/ /\ r.endptr < Len(token)
                              /\ token[r.endptr + 1] # ";"
                        \/ r.l <= 0
                        \/ r.endptr = 0
                     THEN [p EXCEPT !.error = TRUE]
                     ELSE [p EXCEPT !.state = "SEMICOLON", !.next = TRUE,
                                    !.thread_id = r.l]
      [] p.state = "USER" ->
            [p EXCEPT !.user = extract_user(token), !.state = "SEMICOLON",
                      !.next = TRUE]
      [] p.state = "SEMICOLON" ->
            IF token[1] = ";"
            THEN [p EXCEPT !.state = "DONE", !.next = TRUE]
            ELSE [p EXCEPT !.error = TRUE]
      [] OTHER -> [p EXCEPT !.error = TRUE]

RECURSIVE kill_parse_loop(_, _, _)
kill_parse_loop(tokens, i, p) ==
    IF i > Len(tokens) \/ p.error THEN p
    ELSE LET p1 == kill_parse_token([p EXCEPT !.next = FALSE], tokens[i])
         IN  kill_parse_loop(tokens, IF p1.next THEN i + 1 ELSE i, p1)

\* parse_kill_query(): ok is the return value; thread_id, kt and user are
\* the outputs, left as the caller has set them when the parsing fails.
parse_kill_query(query) ==
    LET p == kill_parse_loop(strtok_r(query), 1,
                 [state |-> "KILL", kill_type |-> {"KT_CONNECTION"},
                  thread_id |-> 0, user |-> <<>>, error |-> FALSE,
                  next |-> FALSE])
    IN  IF p.error \/ p.state \notin {"DONE", "SEMICOLON"}
        THEN [ok |-> FALSE, thread_id |-> 0, kt |-> {"KT_CONNECTION"},
              user |-> <<>>]
        ELSE [ok |-> TRUE, thread_id |-> p.thread_id, kt |-> p.kill_type,
              user |-> p.user]

\* What the protocol has done with the last COM_QUERY: the result of
\* process_special_commands(), the kills dispatched, the OK packets sent
\* and whether the statement went on to the router.
NoKill == [form |-> FALSE, input |-> <<>>, rval |-> "none", executed |-> <<>>, ok_sent |-> 0,
           routed |-> FALSE]

\* handle_query_kill()
handle_query_kill(query) ==
    IF strncasecmp0(query, WORD_KILL)
    THEN LET r == parse_kill_query(query)
         IN  IF r.ok
             THEN [NoKill EXCEPT
                      !.rval = "RES_END",
                      !.executed =
                          IF r.thread_id > 0
                          THEN <<[fn |-> "mxs_mysql_execute_kill",
                                  target |-> r.thread_id, type |-> r.kt]>>
                          ELSE IF r.user # <<>>
                          THEN <<[fn |-> "mxs_mysql_execute_kill_user",
                                  target |-> r.user, type |-> r.kt]>>
                          ELSE <<>>,
                      !.ok_sent = 1]
             ELSE [NoKill EXCEPT !.rval = "RES_CONTINUE"]
    ELSE [NoKill EXCEPT !.rval = "RES_CONTINUE"]

\* The limits of process_special_commands() on the length of the packet.
kill_length_ok(packet_len) ==
    /\ packet_len >= MYSQL_HEADER_LEN + 1 + SHORTEST_KILL
    /\ packet_len <= MYSQL_HEADER_LEN + 1 + LONGEST_KILL

\* process_special_commands() for cmd == MXS_COM_QUERY.
process_special_commands(query) ==
    IF kill_length_ok(MYSQL_HEADER_LEN + 1 + Len(query))
    THEN handle_query_kill(query)
    ELSE [NoKill EXCEPT !.rval = "RES_CONTINUE"]

\* ------------------------------------------------- runtime alteration
\* The parameters of a server: two that runtime_alter_server() changes,
\* one it knows but does not change, and a custom parameter.
ServerDynamicParams == {"address", "port"}
ServerStaticParams == {"protocol"}
ServerCustomParams == {"weight"}
ServerParams ==
    ServerDynamicParams \cup ServerStaticParams \cup ServerCustomParams
\* The parameters of a service: two of Service::is_basic_parameter(), the
\* lists of filters and servers, the two other static ones, a parameter
\* of the router, and a name that is no parameter.
ServiceBasicParams == {"user", "filters"}
ServiceStaticParams == {"type", "router", "servers"}
ServiceRouterParams == {"max_slave_connections"}
ServiceParams ==
    ServiceBasicParams \cup ServiceStaticParams \cup ServiceRouterParams
UnknownParams == {"nosuch"}
\* The values tried; "" is the empty value or a parameter that is not set.
ParamValues == {"", "3307", "abc"}

\* get_positive_int(), is_valid_integer(): of the values, "3307" is the
\* one that is a number.
get_positive_int(value) == value = "3307"
\* param_is_valid(), validate_param(): the parameter is one of the object
\* or of its module, and the value is one of its type.
param_is_valid(known, key, value) ==
    /\ key \in known
    /\ value # ""
    /\ key \in {"port", "max_slave_connections"} => get_positive_int(value)

NewServerParams ==
    [k \in ServerParams |->
        CASE k = "port" -> "3307" [] k = "weight" -> "" [] OTHER -> "abc"]
\* A server: its version, its parameters in memory and persisted, and
\* the users its grant tables hold.
NewServer == [version |-> UnknownVersion, params |-> NewServerParams,
              persisted |-> NewServerParams, grants |-> {}]
NewServiceParams ==
    [k \in ServiceParams |->
        CASE k = "max_slave_connections" -> "3307" [] k = "filters" -> ""
          [] OTHER -> "abc"]

\* The result of a runtime_alter_*() call: the altered object, the return
\* value and the number of config_runtime_error() calls.
AlterResult(obj, rval, errors) == [obj |-> obj, rval |-> rval, errors |-> errors]

\* runtime_alter_server(); Server::serialize() writes the parameters of
\* the server to its persisted configuration.
runtime_alter_server(srv, key, value) ==
    IF value = "" THEN AlterResult(srv, FALSE, 1)
    ELSE LET is_normal_parameter == key \notin ServerCustomParams
         IN  IF is_normal_parameter
                /\ ~param_is_valid(ServerParams, key, value)
             THEN AlterResult(srv, FALSE, 1)
             ELSE IF is_normal_parameter
             THEN IF \/ key = "address"
                     \/ key = "port" /\ get_positive_int(value)
                  THEN LET s1 == [srv EXCEPT !.params[key] = value]
                       IN  AlterResult([s1 EXCEPT !.persisted = s1.params],
                                       TRUE, 0)
                  ELSE IF key = "port" THEN AlterResult(srv, FALSE, 0)
                  ELSE AlterResult(srv, FALSE, 1)
             ELSE LET s1 == [srv EXCEPT !.params[key] = value]
                  IN  AlterResult([s1 EXCEPT !.persisted = s1.params],
                                  TRUE, 0)

\* Service::dump_config(): svc_config_param is written, without the
\* filters and the servers, which are written from the lists in use.
service_serialize(svc) ==
    [svc EXCEPT !.persisted =
        [k \in ServiceParams |->
            IF k \in {"filters", "servers"} THEN svc.persisted[k]
            ELSE svc.svc_config_param[k]]]

\* runtime_alter_service(); configured is the result of the router's
\* configureInstance().
runtime_alter_service(svc, key, value, configured) ==
    IF ~param_is_valid(ServiceParams, key, value)
    THEN AlterResult(svc, FALSE, 1)
    ELSE IF key \in {"filters", "servers"}
    THEN AlterResult(svc, FALSE, 1)
    ELSE IF key \in ServiceBasicParams
    THEN AlterResult(service_serialize([svc EXCEPT !.basic[key] = value]),
                     TRUE, 0)
    ELSE IF svc.runtime_config
    THEN IF configured
         THEN AlterResult(service_serialize(
                              [svc EXCEPT !.svc_config_param[key] = value]),
                          TRUE, 0)
         ELSE AlterResult(svc, FALSE, 1)
    ELSE AlterResult(svc, FALSE, 1)

\* is_dynamic_param()
is_dynamic_param(key) == key \notin {"type", "router", "servers"}

\* runtime_alter_service_from_json() for a body that has one parameter
\* with a new value.
runtime_alter_service_from_json(svc, key, value, configured) ==
    IF \/ key \in ServiceRouterParams
       \/ key \in ServiceParams /\ is_dynamic_param(key)
    THEN runtime_alter_service(svc, key, value, configured)
    ELSE AlterResult(svc, FALSE, 1)

NoAlter == [fn |-> "none", key |-> "", value |-> "", rval |-> FALSE,
            errors |-> 0, changed |-> FALSE]

\* --------------------------------------------------- authentication
\* The last second of the model's clock.
MaxTime == 4
\* maxscale_started() and config->users_refresh_time, in seconds.
maxscale_started == 0
users_refresh_time == 2
\* The routing workers.
Workers == {0, 1}
\* The user names of the clients.
UserNames == {"alice"}
MYSQL_AUTH_PACKET_BASE_SIZE == 36
MYSQL_SCRAMBLE_LEN == 20
MaxAuthPacket == 1028

\* Service::Service(): "bool last = time(NULL)" is true, that is 1, and
\* stays a bool after users_refresh_time is subtracted.
InitialRateLimitLast ==
    IF 1 - users_refresh_time # 0 THEN 1 ELSE 0
\* m_rate_limits, without the flag that only limits the warnings logged.
NewRateLimits ==
    [self \in Workers |-> [last |-> InitialRateLimitLast]]

\* What one call of Service::refresh_users() did: whether the limit was
\* exceeded, whether load_users() ran, the return value of
\* service_refresh_users(), and (for the properties) the time of the
\* reload before this one in the same slot of m_rate_limits.
NoRefresh == [called |-> FALSE, limited |-> FALSE, loaded |-> FALSE,
              ret |-> 0, self |-> 0, at |-> 0, prev |-> -1]

\* Variant: no rate limit.
rate_limit_exceeded_never(svc, self, t) == FALSE

\* The condition of lines 1098-1099.
rate_limit_exceeded(svc, self, t) ==
    /\ t > maxscale_started + users_refresh_time
    /\ t < svc.m_rate_limits[self].last + users_refresh_time

\* Service::refresh_users() and service_refresh_users(), called on worker
\* w at time t; grants are the users of the server the listener loads
\* from and load is the result of load_users().  The result has the
\* service and the record of the call.
service_refresh_users(svc, w, t, grants, load) ==
    LET self == IF svc.acap_async THEN w ELSE 0
    IN  IF rate_limit_exceeded(svc, self, t)
        THEN [svc |-> svc,
              refresh |-> [NoRefresh EXCEPT !.called = TRUE, !.limited = TRUE,
                                            !.self = self, !.at = t,
                                            !.ret = 0]]
        ELSE [svc |-> [svc EXCEPT
                          !.m_rate_limits[self] = [last |-> t],
                          !.users = IF load = "MXS_AUTH_LOADUSERS_OK"
                                    THEN grants ELSE @,
                          !.reloaded[self] = t],
              refresh |-> [NoRefresh EXCEPT
                              !.called = TRUE, !.loaded = TRUE,
                              !.self = self, !.at = t,
                              !.prev = svc.reloaded[self],
                              !.ret = IF load = "MXS_AUTH_LOADUSERS_OK"
                                      THEN 0 ELSE 1]]

\* validate_mysql_user(): the user is in the loaded user data and the
\* token is made of the password.
validate_mysql_user(svc, user, token) ==
    IF user \in svc.users /\ token = "right"
    THEN "MXS_AUTH_SUCCEEDED" ELSE "MXS_AUTH_FAILED"

\* The validation of authenticate() (lines 306-326) and of
\* reauthenticate() (lines 811-818): validate, and after a failure
\* validate again if service_refresh_users() returns 0.
NoValidation == [first |-> "none", second |-> "none", rc |-> "none",
                 refresh |-> NoRefresh]

\* Variant: the failure of the first validation is final.
validate_once(svc, w, t, grants, load, user, token) ==
    LET first == validate_mysql_user(svc, user, token)
    IN  [svc |-> svc, v |-> [NoValidation EXCEPT !.first = first, !.rc = first]]

validate_and_refresh(svc, w, t, grants, load, user, token) ==
    LET first == validate_mysql_user(svc, user, token)
    IN  IF first = "MXS_AUTH_SUCCEEDED"
        THEN [svc |-> svc,
              v |-> [NoValidation EXCEPT !.first = first, !.rc = first]]
        ELSE LET r == service_refresh_users(svc, w, t, grants, load)
             IN  IF r.refresh.ret = 0
                 THEN LET second == validate_mysql_user(r.svc, user, token)
                      IN  [svc |-> r.svc,
                           v |-> [first |-> first, second |-> second,
                                  rc |-> second, refresh |-> r.refresh]]
                 ELSE [svc |-> r.svc,
                       v |-> [first |-> first, second |-> "none",
                              rc |-> first, refresh |-> r.refresh]]

\* A packet of the client before the session is routed: its length, and
\* what a handshake response carries (user, plugin, token) or what the
\* reply to an AuthSwitchRequest carries (token).
AuthPackets ==
    {[len |-> MYSQL_AUTH_PACKET_BASE_SIZE + 24, user |-> u,
      plugin_default |-> p, token |-> t] :
        u \in UserNames, p \in BOOLEAN, t \in {"right", "wrong"}}
    \cup {[len |-> MYSQL_HEADER_LEN + MYSQL_SCRAMBLE_LEN, user |-> "",
           plugin_default |-> TRUE, token |-> t] : t \in {"right", "wrong"}}
    \cup {[len |-> l, user |-> "", plugin_default |-> TRUE, token |-> "wrong"] :
             l \in {MYSQL_HEADER_LEN, MYSQL_AUTH_PACKET_BASE_SIZE}}

\* The client connection: the DCB, its MySQLProtocol and its
\* MYSQL_session.  path (for the properties) lists the values
\* protocol_auth_state has had, last_pkt is the packet handled last and
\* switch_pending whether it came after an AuthSwitchRequest.
NewAuth ==
    [open |-> FALSE, worker |-> 0, protocol_auth_state |-> "INIT",
     path |-> <<"INIT">>, user |-> "", token |-> "wrong",
     auth_switch_sent |-> FALSE, correct_authenticator |-> FALSE,
     switch_requests |-> 0, auth_val |-> "none", validation |-> NoValidation,
     validated |-> FALSE, session_started |-> FALSE, ok_sent |-> 0,
     err_sent |-> 0, routed |-> FALSE, last_pkt |-> 0,
     switch_pending |-> FALSE]

set_auth_state(a, state) ==
    [a EXCEPT !.protocol_auth_state = state, !.path = Append(@, state)]

\* MariaDBAuthenticatorSession::extract() with mysql_auth_set_client_data()
\* for a well-formed packet: ok is the return value.
extract(a, pkt) ==
    IF \/ /\ ~a.auth_switch_sent
          /\ pkt.len >= MYSQL_AUTH_PACKET_BASE_SIZE
          /\ pkt.len < MaxAuthPacket
       \/ /\ a.auth_switch_sent
          /\ pkt.len = MYSQL_HEADER_LEN + MYSQL_SCRAMBLE_LEN
    THEN IF pkt.len > MYSQL_AUTH_PACKET_BASE_SIZE
         THEN [ok |-> TRUE,
               a |-> [a EXCEPT !.user = pkt.user, !.token = pkt.token,
                               !.correct_authenticator = pkt.plugin_default]]
         ELSE IF a.auth_switch_sent
         THEN [ok |-> TRUE,
               a |-> [a EXCEPT !.token = pkt.token,
                               !.correct_authenticator = TRUE]]
         ELSE [ok |-> TRUE,
               a |-> [a EXCEPT !.token = "wrong",
                               !.correct_authenticator = FALSE]]
    ELSE [ok |-> FALSE, a |-> a]

\* Variant: a client that uses another plugin is validated at once.
authenticate_no_switch(svc, a, t, grants, load) ==
    IF a.user = "" THEN [svc |-> svc, a |-> [a EXCEPT !.auth_val = "MXS_AUTH_SSL_COMPLETE"]]
    ELSE LET r == validate_and_refresh(svc, a.worker, t, grants, load,
                                       a.user, a.token)
         IN  [svc |-> r.svc,
              a |-> [a EXCEPT !.auth_val = r.v.rc, !.validation = r.v,
                              !.validated = TRUE]]

\* MariaDBAuthenticatorSession::authenticate(); the AuthSwitchRequest is
\* written to the client.
authenticate(svc, a, t, grants, load) ==
    IF a.user = ""
    THEN [svc |-> svc, a |-> [a EXCEPT !.auth_val = "MXS_AUTH_SSL_COMPLETE"]]
    ELSE IF ~a.correct_authenticator
    THEN [svc |-> svc,
          a |-> [a EXCEPT !.auth_switch_sent = TRUE,
                          !.switch_requests = @ + 1,
                          !.auth_val = "MXS_AUTH_INCOMPLETE"]]
    ELSE LET r == validate_and_refresh(svc, a.worker, t, grants, load,
                                       a.user, a.token)
         IN  [svc |-> r.svc,
              a |-> [a EXCEPT !.auth_val = r.v.rc, !.validation = r.v,
                              !.validated = TRUE]]

\* Variant: the state is Complete whether or not the session has started.
auth_session_start_ignored(a, session_ok) ==
    LET a1 == set_auth_state(a, "RESPONSE_SENT")
    IN  [set_auth_state(a1, "COMPLETE") EXCEPT
            !.session_started = session_ok, !.ok_sent = @ + 1]

\* perform_authentication(), lines 784-823: the authentication has
\* succeeded and the session is started.
auth_session_start(a, session_ok) ==
    LET a1 == set_auth_state(a, "RESPONSE_SENT")
    IN  IF session_ok
        THEN [set_auth_state(a1, "COMPLETE") EXCEPT
                 !.session_started = TRUE, !.ok_sent = @ + 1]
        ELSE [a1 EXCEPT !.auth_val = "MXS_AUTH_NO_SESSION"]

\* perform_authentication(), lines 829-846: the failure is reported and
\* the DCB closed.
auth_failure(a) ==
    IF a.auth_val \notin {"MXS_AUTH_SUCCEEDED", "MXS_AUTH_INCOMPLETE"}
    THEN [set_auth_state(a, "FAILED") EXCEPT !.err_sent = @ + 1,
                                            !.open = FALSE]
    ELSE a

\* perform_authentication() without SSL.
perform_authentication(svc, a, pkt, t, grants, load, session_ok) ==
    LET a0 == [a EXCEPT !.validation = NoValidation, !.validated = FALSE,
                        !.last_pkt = pkt.len,
                        !.switch_pending = a.auth_switch_sent]
        e == extract(a0, pkt)
        r == IF e.ok THEN authenticate(svc, e.a, t, grants, load)
             ELSE [svc |-> svc,
                   a |-> [a0 EXCEPT !.auth_val = "MXS_AUTH_BAD_HANDSHAKE"]]
        a2 == IF r.a.auth_val = "MXS_AUTH_SUCCEEDED"
              THEN auth_session_start(r.a, session_ok) ELSE r.a
    IN  [svc |-> r.svc, a |-> auth_failure(a2)]

\* mariadbclient_read(): a complete packet of the client has been read.
mariadbclient_read(svc, a, pkt, t, grants, load, session_ok) ==
    CASE a.protocol_auth_state = "MESSAGE_READ" ->
            perform_authentication(svc, a, pkt, t, grants, load, session_ok)
      [] a.protocol_auth_state = "COMPLETE" ->
            [svc |-> svc, a |-> [a EXCEPT !.routed = TRUE]]
      [] OTHER -> [svc |-> svc, a |-> a]

\* The handshake sent to the client: the version string in it, and for
\* the properties the configured version_string and rval before the
\* prefix is looked at.
NoHandshake == [sent |-> FALSE, param |-> NoVersion, rval |-> NoVersion,
                version |-> NoVersion]

\* A service: the configured version_string and the member made of it,
\* the members update_basic_parameter() sets, svc_config_param, the
\* persisted configuration, RCAP_TYPE_RUNTIME_CONFIG of the router
\* together with its configureInstance entry point, ACAP_TYPE_ASYNC of
\* the authenticator, the loaded user data, m_rate_limits, and (for the
\* properties) the time of the last reload of each slot, -1 if none.
NoService ==
    [version_string |-> NoVersion, m_version_string |-> NoVersion,
     basic |-> [k \in ServiceBasicParams |-> NewServiceParams[k]],
     svc_config_param |-> NewServiceParams,
     persisted |-> NewServiceParams,
     runtime_config |-> TRUE,
     acap_async |-> FALSE,
     users |-> {},
     m_rate_limits |-> NewRateLimits,
     reloaded |-> [self \in Workers |-> -1]]
\* send_mysql_client_handshake(): the handshake with the version string
\* is written and the protocol waits for the response.
send_mysql_client_handshake(d) ==
    [d EXCEPT !.handshake = [sent |-> TRUE,
                             param |-> service.version_string,
                             rval |-> version_rval,
                             version |-> get_version_string],
              !.auth = set_auth_state(@, "MESSAGE_READ")]

NoDcb == [handshake |-> NoHandshake, kill |-> NoKill, auth |-> NewAuth]

\* The core as the specifications of the router session have it: a
\* service without a configured version, servers of unknown version and
\* no connection that is being set up.
\* ------------------------------------------------ the manual commands
\* The threads that call execute_manual_command(), and how many calls there
\* are in all.
Submitters == {"s1", "s2"}
MaxCmds == 3
NoCmd == 0

\* MariaDBMonitor::ManualCommand m_manual_cmd, with the threads at work on
\* it.  pc is the place of each submitter in execute_manual_command(), tick
\* the place of the monitor thread in process_state_changes().  cmd is the
\* command of the call in progress; calls, execs and result tell what has
\* become of each command.
NoManualCmd ==
    [running |-> TRUE,
     command_waiting_exec |-> FALSE, result_waiting |-> FALSE,
     method |-> NoCmd, mutex |-> "free",
     has_result |-> {},
     pc |-> [s \in Submitters |-> "idle"], tick |-> "idle",
     cmd |-> [s \in Submitters |-> NoCmd], calls |-> 0,
     execs |-> [c \in 1..MaxCmds |-> 0],
     result |-> [c \in 1..MaxCmds |-> "none"]]

\* ------------------------------------------------ the runtime objects
\* The objects of the configuration: one service with its listeners, its
\* server references and its filters, a monitor, the servers and the
\* filters.  An address is a sequence of characters; a listener on a socket
\* has the path as its address.
ObjServers == {"db1"}
ObjFilters == {"f1"}
ListenerNames == {"l1", "l2"}
ListenerAddrs == {<<":", ":">>, <<"/", "s">>}
ListenerPorts == {3306, 3307}

\* listed: the service is in this_unit.services.  fn, rval and error: the
\* last runtime operation, its result and whether it called
\* config_runtime_error().
NoObjects ==
    [listeners |-> {},
     active |-> TRUE, listed |-> TRUE,
     dbref |-> {}, filters |-> {}, m_monitor |-> FALSE,
     server_active |-> [s \in ObjServers |-> TRUE],
     monitor_active |-> TRUE, monitored |-> {},
     filter_defs |-> ObjFilters,
     fn |-> "none", rval |-> FALSE, error |-> FALSE]

\* ------------------------------------------------ the hint router
\* The backends of a hint router session and their roles, and how many
\* statements the client sends.
HintBackends == {"h1", "h2"}
MaxHintStmts == 2

\* The HintRouterSession with the default action of its router, and what
\* has become of each statement: target and written tell where it was
\* routed, pending which replies are outstanding on each backend, fwd and
\* dis how many of its replies were forwarded and discarded.
NoHintSession ==
    [open |-> FALSE,
     default_action |-> "HINT_ROUTE_TO_MASTER", default_server |-> "h1",
     m_master |-> "none", m_slaves |-> <<>>,
     m_n_routed_to_slave |-> 0, m_surplus_replies |-> 0,
     pending |-> [b \in HintBackends |-> <<>>],
     sent |-> 0,
     target |-> [i \in 1..MaxHintStmts |-> "none"],
     written |-> [i \in 1..MaxHintStmts |-> 0],
     fwd |-> [i \in 1..MaxHintStmts |-> 0],
     dis |-> [i \in 1..MaxHintStmts |-> 0],
     rv |-> TRUE]

InitExt ==
    /\ mon = NoManualCmd
    /\ objects = NoObjects
    /\ hintses = NoHintSession

InitCore ==
    /\ service = NoService
    /\ server = [b \in Servers |-> NewServer]
    /\ dcb = NoDcb
    /\ runtime = NoAlter
    /\ now = maxscale_started
    /\ InitExt

\* m_raw_backends: one backend for each server of the service.
Backends == DOMAIN role

\* ------------------------------------------------------------------ Trx
\* class Trx: the statement log, its size and the checksum of the results.
\* The SHA1 of the concatenated result bytes is modelled by the
\* concatenation itself (a collision free checksum).
EmptyTrx == [log |-> <<>>, size |-> 0, chk |-> <<>>]

Trx_add_stmt(t, q) == [t EXCEPT !.log = Append(@, q), !.size = @ + StmtLen(q)]
Trx_add_result(t, data) == [t EXCEPT !.chk = @ \o data]
\* pop_stmt() leaves the size as it is: empty() still tells whether the
\* transaction ever had statements.
Trx_pop_stmt(t) == [t EXCEPT !.log = Tail(@)]
Trx_have_stmts(t) == t.log # <<>>
Trx_empty(t) == t.size = 0

\* ------------------------------------------------- session state helpers
session_trx_is_active(w) == w.s.trx_active
session_trx_is_ending(w) == w.s.trx_ending

\* MXS_SESSION::terminate(error): the error is written to the client and a
\* hangup of the client connection is scheduled.
terminate(w, err) ==
    IF w.s.state = "started"
    THEN [w EXCEPT !.s.state = "stopping",
                   !.c.errors = IF err = 0 THEN @ ELSE @ \cup {err}]
    ELSE w

\* RouterSession::clientReply: the buffer goes to the client.  The client
\* counts the replies it has received completely, per statement.
\* History, with causal_reads: the packets the client has got, each with
\* the statement it answers.
reply_to_client(w, q, complete) ==
    LET w1 == IF m_config.causal_reads
              THEN [w EXCEPT !.c.pkts =
                        @ \o [i \in 1..Len(w.buf) |->
                                 [id |-> q.id, kind |-> q.kind,
                                  no |-> w.buf[i].no,
                                  seq |-> w.buf[i].seq,
                                  type |-> w.buf[i].type]]]
              ELSE w
        w2 == IF q.kind = "rollback"
              THEN [w1 EXCEPT !.h.rollback_forwarded = TRUE]
              ELSE w1
    IN  IF complete /\ q.id # 0
        THEN [w2 EXCEPT !.c.got[q.id] = @ + 1]
        ELSE w2

error_to_client(w, err) == [w EXCEPT !.c.errors = @ \cup {err}]

\* ------------------------------------------------ inline session helpers
can_retry_query(w) ==
    /\ m_config.delayed_retry
    /\ w.r.m_retry_duration < RetryTimeout
    /\ ~session_trx_is_active(w)

can_continue_trx_replay(w) ==
    w.r.m_is_replay_active /\ w.r.m_retry_duration < RetryTimeout

can_route_queries_always(w) == TRUE

can_route_queries(w) ==
    \/ w.r.m_expected_responses = 0
    \/ w.r.load_data_active
    \/ w.r.large_query

can_continue_session(w) == \E b \in Backends : w.b[b].in_use

\* retry_query(): the buffer is marked GWBUF_TYPE_REPLAYED and handed to
\* session_delay_routing(), which routes it from a later event.
retry_query(w, q) ==
    [w EXCEPT !.d = Append(@, [q EXCEPT !.replayed = TRUE]),
              !.r.m_retry_duration = @ + 1]

\* mxs::Backend::can_connect(): the server is running
can_connect(b) == role[b] # "down"

\* mxs::Target::rank(): the rank the servers are configured with.
rank(b) == m_config.rank[b]

\* can_continue_using_master(): the server is still a master.
can_continue_using_master(w, b) == role[b] = "master"

\* get_root_master(): the current master while it can be used, else a
\* master of the best rank.
get_root_master(w) ==
    IF /\ w.r.m_current_master # NoBackend
       /\ w.b[w.r.m_current_master].in_use
       /\ can_continue_using_master(w, w.r.m_current_master)
    THEN w.r.m_current_master
    ELSE LET candidates == {b \in Backends :
                               /\ can_connect(b) /\ role[b] = "master"
                               /\ \A c \in Backends :
                                      can_connect(c) /\ role[c] = "master"
                                          => rank(b) <= rank(c)}
         IN  IF candidates # {}
             THEN CHOOSE b \in candidates : TRUE
             ELSE NoBackend

\* The comparison of get_current_rank(): a backend in use comes before one
\* that is not, then one that can be connected to before one that cannot,
\* then the one of the lower rank.
rank_compare(w, a, b) ==
    IF w.b[a].in_use # w.b[b].in_use THEN w.b[a].in_use
    ELSE IF can_connect(a) # can_connect(b) THEN can_connect(a)
    ELSE rank(a) < rank(b)

\* RWSplitSession::get_current_rank(): the rank of the master in use, else
\* the rank of the first backend in the order of the comparison.
get_current_rank(w) ==
    IF /\ w.r.m_current_master # NoBackend
       /\ w.b[w.r.m_current_master].in_use
    THEN rank(w.r.m_current_master)
    ELSE rank(CHOOSE a \in Backends :
                  \A b \in Backends : ~rank_compare(w, b, a))

\* The backend a statement is routed to (rwsplit_route_stmt: the target
\* selection of route_single_stmt).  Inside a transaction and for writes
\* the master; for other reads the backend get_slave_backend() gives.
\* A master that is not connected is connected when master_reconnection
\* allows it.
master_target(w) ==
    LET m == get_root_master(w)
    IN  IF m = NoBackend THEN NoBackend
        ELSE IF w.b[m].in_use THEN m
        ELSE IF m_config.master_reconnection THEN m
        ELSE NoBackend

\* get_slave_counts().second: the connected slaves
slaves_connected(w, master) ==
    Cardinality({b \in Backends : role[b] = "slave" /\ b # master
                                   /\ w.b[b].in_use})

\* RWSplit::max_slave_count(): the slave connections a session may have.
max_slave_count == m_config.max_slave_connections

\* get_slave_backend() that takes a backend into use whether or not more
\* slaves are needed.
get_slave_backend_any(w) ==
    LET usable == {b \in Backends : /\ role[b] \in {"master", "slave"}
                                     /\ (w.b[b].in_use \/ can_connect(b))}
        candidates == {b \in usable : \A c \in usable : role[c] = "slave"
                                                         => role[b] = "slave"}
    IN  IF candidates = {} THEN NoBackend
        ELSE IF \E b \in candidates : ~w.b[b].in_use
        THEN CHOOSE b \in candidates : ~w.b[b].in_use
        ELSE CHOOSE b \in candidates : TRUE

\* get_backend_priority(), master_accept_reads off, no session commands
\* outstanding: 0 for a slave, 1 for a master.
get_backend_priority(b) == IF role[b] = "slave" THEN 0 ELSE 1

\* m_config.backend_select_fct: the candidate with the best score.  The
\* scores (connection counts, load, lag) are those of the servers, which
\* other sessions use too: either the candidates this session uses score
\* best, or those it does not use.
backend_select_fct(w, candidates) ==
    LET first == {b \in candidates :
                     w.b[b].in_use = (m_config.backend_select_fct = "in_use")}
    IN  IF candidates = {} THEN NoBackend
        ELSE IF first # {} THEN CHOOSE b \in first : TRUE
        ELSE CHOOSE b \in candidates : TRUE

\* get_slave_backend() whose candidates are of any rank.
slave_candidates_any_rank(w) ==
    {b \in Backends : role[b] \in {"master", "slave"} /\ can_connect(b)}

\* RWSplitSession::get_slave_backend(), the candidates for a read.  A
\* backend is usable when it is in use, or when it can be taken into use
\* and either more slaves are needed or it is the current master; of the
\* usable ones of the current rank those of the best priority are the
\* candidates (no replication lag limit).
slave_candidates(w) ==
    LET need_slaves == slaves_connected(w, w.r.m_current_master)
                           < max_slave_count
        usable == {b \in Backends :
                      /\ role[b] \in {"master", "slave"}
                      /\ \/ w.b[b].in_use
                         \/ /\ can_connect(b)
                            /\ (need_slaves \/ b = w.r.m_current_master)
                      /\ rank(b) = get_current_rank(w)}
    IN  {b \in usable : \A c \in usable : get_backend_priority(b)
                                              <= get_backend_priority(c)}

\* RWSplitSession::get_slave_backend(): the backend for a read.
get_slave_backend(w) == backend_select_fct(w, slave_candidates(w))

slave_target(w) == get_slave_backend(w)

is_master_stmt(w, q) ==
    \/ session_trx_is_active(w)
    \/ q.kind \in {"begin", "write", "commit", "read_master"}

\* mxs::Backend::write() and connect(): the backend executes the statement.
Backend_write(be, q) ==
    [be EXCEPT !.in_use = TRUE, !.cmd = q, !.started = FALSE, !.sent = 0]

\* mxs::Backend::close()
Backend_close(be) ==
    [be EXCEPT !.in_use = FALSE, !.cmd = NoStmt, !.started = FALSE,
               !.sent = 0]

\* mxs::Backend::ack_write(): the reply is complete.
Backend_ack_write(be) ==
    [be EXCEPT !.cmd = NoStmt, !.started = FALSE, !.sent = 0]

is_waiting_result(w, b) == w.b[b].cmd # NoStmt

\* correct_packet_sequence() that leaves the sequence numbers as they are.
correct_packet_sequence_none(w) == w

\* An assignment to m_wait_gtid.  History: the values m_wait_gtid has had
\* in the step, in the order of the assignments.
set_wait_gtid(w, v) ==
    [w EXCEPT !.r.m_wait_gtid = v, !.h.wait_path = Append(@, v)]

\* hint_create_route(HINT_ROUTE_TO_MASTER): the read is one for the master.
hint_route_to_master(q) == [q EXCEPT !.kind = "read_master"]

\* add_prefix_wait_gtid(): the read is sent with a MASTER_GTID_WAIT in front
\* of it.
add_prefix_wait_gtid(q) == [q EXCEPT !.kind = "read_wait"]

\* handle_got_target(): write the statement to the target; the statement
\* will be answered, which raises the expected-response count.  With
\* causal_reads a read for a slave is sent with the wait for the last GTID
\* of the master in front of it, and is kept for a retry on the master.
handle_got_target(w, q, target, store) ==
    LET causal == /\ m_config.causal_reads
                  /\ q.kind = "read"
                  /\ w.r.m_gtid_pos # ""
                  /\ role[target] = "slave"
        w1 == IF causal THEN set_wait_gtid(w, "WAITING_FOR_HEADER") ELSE w
    IN  [w1 EXCEPT !.b[target] = Backend_write(@, IF causal
                                                  THEN add_prefix_wait_gtid(q)
                                                  ELSE q),
                  !.r.m_prev_target = target,
                  !.r.m_retry_duration = 0,
                  !.r.m_expected_responses = @ + 1,
                  !.r.m_current_query = IF store \/ causal THEN q ELSE @,
                  !.rv = TRUE]

\* mxs::Backend::has_session_commands()
has_session_commands(w, b) == w.b[b].cmd.kind = "change_user"

\* route_session_write(): a session command is written to every backend
\* in use, and each of them will answer.
route_session_write(w, q) ==
    LET targets == {b \in Backends : w.b[b].in_use}
    IN  [w EXCEPT !.b = [b \in Backends |->
                            IF b \in targets THEN Backend_write(w.b[b], q)
                            ELSE w.b[b]],
                  !.r.m_expected_responses = @ + Cardinality(targets),
                  !.r.m_sent_sescmd = @ + 1,
                  !.rv = (targets # {})]

\* process_sescmd_response(): TRUE when the buffer is to be discarded.  The
\* reply of the master, or the first reply when there is no master, is the
\* one the client gets.
sescmd_discard(w, b) ==
    ~ /\ w.r.m_recv_sescmd < w.r.m_sent_sescmd
      /\ \/ w.r.m_current_master = NoBackend
         \/ ~w.b[w.r.m_current_master].in_use
         \/ w.r.m_current_master = b

process_sescmd_response(w, b, complete) ==
    IF complete /\ ~sescmd_discard(w, b)
    THEN [w EXCEPT !.r.m_recv_sescmd = @ + 1]
    ELSE w

\* should_try_trx_on_slave(): a transaction that starts is tried on a
\* slave when optimistic_trx is on, no replay is going on, no optimistic
\* transaction is open and a slave is connected.
should_try_trx_on_slave(w) ==
    /\ m_config.optimistic_trx
    /\ ~w.r.m_is_replay_active
    /\ w.r.m_otrx_state = "OTRX_INACTIVE"
    /\ \E b \in Backends : /\ w.b[b].in_use
                           /\ b # w.r.m_current_master
                           /\ role[b] = "slave"

\* The ROLLBACK the router sends in place of statement q.
RollbackOf(q) == [q EXCEPT !.kind = "rollback"]

\* track_optimistic_trx(): the end of the transaction ends the optimistic
\* transaction; a statement that is not a read is kept as the current
\* query and a ROLLBACK goes to the slave in its place.  rv says whether
\* the statement is to be stored, pkt is the statement to write.
track_optimistic_trx(w, q) ==
    IF session_trx_is_ending(w)
    THEN [w EXCEPT !.r.m_otrx_state = "OTRX_INACTIVE", !.pkt = q,
                   !.rv = TRUE]
    ELSE IF q.kind # "read"
    THEN [w EXCEPT !.r.m_current_query = q,
                   !.r.m_otrx_state = "OTRX_ROLLBACK",
                   !.pkt = RollbackOf(q), !.rv = FALSE]
    ELSE [w EXCEPT !.pkt = q, !.rv = TRUE]

\* route_single_stmt()
route_single_stmt(w, q) ==
    IF q.kind \in {"change_user", "quit"} THEN route_session_write(w, q) ELSE
    LET try_slave == q.kind = "begin" /\ should_try_trx_on_slave(w)
        w0 == [w EXCEPT !.r.m_otrx_state =
                  IF try_slave THEN "OTRX_STARTING"
                  ELSE IF @ = "OTRX_STARTING" THEN "OTRX_ACTIVE" ELSE @]
        tomaster == is_master_stmt(w, q) /\ ~try_slave
        target == IF tomaster THEN master_target(w0) ELSE slave_target(w0)
        store == m_config.delayed_retry
                 \/ (~tomaster /\ m_config.retry_failed_reads)
        w1 == IF tomaster /\ target # NoBackend
              THEN [w0 EXCEPT !.r.m_current_master = target]
              ELSE w0
    IN  IF w0.r.m_otrx_state = "OTRX_ACTIVE"
        THEN LET t == track_optimistic_trx(w0, q)
             IN  handle_got_target([t EXCEPT !.pkt = w.pkt], t.pkt,
                                   w.r.m_prev_target, t.rv)
        ELSE IF target # NoBackend
        THEN handle_got_target(w1, q, target, store)
        ELSE IF can_retry_query(w) \/ can_continue_trx_replay(w)
        THEN [retry_query(w, q) EXCEPT !.rv = TRUE]
        ELSE IF tomaster /\ m_config.master_failure_mode = "error_on_write"
        THEN [error_to_client(w, ER_READ_ONLY) EXCEPT !.rv = TRUE]
        ELSE [w EXCEPT !.rv = FALSE]

\* RWSplitSession::routeQuery()
routeQuery(w, q) ==
    IF w.r.m_is_replay_active /\ ~q.replayed
    THEN [w EXCEPT !.r.m_query_queue = Append(@, q), !.rv = TRUE]
    ELSE IF (w.r.m_query_queue = <<>> \/ q.replayed) /\ can_route_queries(w)
    THEN route_single_stmt(w, q)
    ELSE [w EXCEPT !.r.m_query_queue = Append(@, q), !.rv = TRUE]

\* Variant: the statement that routeQuery() queued again is put behind the
\* statements that waited with it.
RECURSIVE route_stored_loop_back(_, _)
route_stored_loop_back(w, rval) ==
    IF w.r.m_query_queue = <<>>
    THEN [w EXCEPT !.rv = rval]
    ELSE LET query == Head(w.r.m_query_queue)
             temp_storage == Tail(w.r.m_query_queue)
             w1 == routeQuery([w EXCEPT !.r.m_query_queue = <<>>], query)
             rv1 == rval /\ w1.rv
         IN  IF w1.r.m_query_queue = <<>>
             THEN route_stored_loop_back(
                      [w1 EXCEPT !.r.m_query_queue = temp_storage,
                                 !.h.drained = TRUE], rv1)
             ELSE [w1 EXCEPT !.r.m_query_queue =
                                 temp_storage \o <<Head(w1.r.m_query_queue)>>,
                             !.h.requeued = TRUE,
                             !.rv = rv1]

\* RWSplitSession::route_stored_query().  rv is the conjunction of the
\* routeQuery() results.  History: a statement has left the queue; a
\* statement was queued again by the routeQuery() of the loop.
RECURSIVE route_stored_loop(_, _)
route_stored_loop(w, rval) ==
    IF w.r.m_query_queue = <<>>
    THEN [w EXCEPT !.rv = rval]
    ELSE LET query == Head(w.r.m_query_queue)
             temp_storage == Tail(w.r.m_query_queue)
             w1 == routeQuery([w EXCEPT !.r.m_query_queue = <<>>], query)
             rv1 == rval /\ w1.rv
         IN  IF w1.r.m_query_queue = <<>>
             THEN route_stored_loop(
                      [w1 EXCEPT !.r.m_query_queue = temp_storage,
                                 !.h.drained = TRUE], rv1)
             ELSE [w1 EXCEPT !.r.m_query_queue =
                                 <<Head(w1.r.m_query_queue)>> \o temp_storage,
                             !.h.requeued = TRUE,
                             !.rv = rv1]

route_stored_query_noop(w) == w

route_stored_query(w) == route_stored_loop(w, TRUE)

\* ------------------------------------------------------ transaction replay
\* trx_replay_next_stmt(), lines 356-359: the checksum of the replayed
\* results against the one of the transaction that was interrupted.
checksums_match_always(w) == TRUE

checksums_match_never(w) == FALSE

checksums_match(w) == w.r.m_trx.chk = w.r.m_replayed_trx.chk

\* trx_replay_next_stmt(), lines 361-371: the replay was successful.
replay_successful(w) ==
    IF w.r.m_interrupted_query # NoStmt
    THEN retry_query([w EXCEPT !.r.m_interrupted_query = NoStmt],
                     w.r.m_interrupted_query)
    ELSE IF w.r.m_query_queue # <<>>
    THEN route_stored_query(w)
    ELSE w

\* trx_replay_next_stmt(), lines 375-385: the replay has failed.
replay_failed_no_error(w) ==
    [terminate(w, 0) EXCEPT !.r.m_is_replay_active = TRUE]

\* Variant: the replay flag is not turned back on.
replay_failed_flag_off(w) == terminate(w, ER_TRX_REPLAY)

replay_failed(w) ==
    [terminate(w, ER_TRX_REPLAY) EXCEPT !.r.m_is_replay_active = TRUE]

\* RWSplitSession::trx_replay_next_stmt().  History: the replay is over, no
\* attempt of it is left to count.
trx_replay_next_stmt(w) ==
    IF Trx_have_stmts(w.r.m_replayed_trx)
    THEN retry_query([w EXCEPT !.r.m_replayed_trx = Trx_pop_stmt(@)],
                     Head(w.r.m_replayed_trx.log))
    ELSE LET w1 == [w EXCEPT !.r.m_is_replay_active = FALSE,
                             !.r.m_num_trx_replays = 0,
                             !.h.attempts = 0]
         IN  IF ~Trx_empty(w1.r.m_replayed_trx)
             THEN IF checksums_match(w1)
                  THEN replay_successful(w1)
                  ELSE replay_failed(w1)
             ELSE w1

\* start_trx_replay(), line 773: the attempt cap
replay_attempts_unlimited(w) == TRUE

replay_attempts_left(w) ==
    w.r.m_num_trx_replays < m_config.trx_max_attempts

\* start_trx_replay(), lines 777-795: the first attempt stores the
\* transaction and the statement in progress, the later ones start from
\* what the first has stored.
store_trx_again(w) ==
    [w EXCEPT !.r.m_orig_trx = w.r.m_trx,
              !.r.m_orig_stmt = w.r.m_current_query]

store_or_restore_trx(w) ==
    IF ~w.r.m_is_replay_active
    THEN [w EXCEPT !.r.m_orig_trx = w.r.m_trx,
                   !.r.m_orig_stmt = w.r.m_current_query]
    ELSE [w EXCEPT !.r.m_replayed_trx = EmptyTrx,
                   !.r.m_trx = w.r.m_orig_trx,
                   !.r.m_current_query = w.r.m_orig_stmt,
                   !.r.m_query_queue = SelectSeq(@, LAMBDA q : ~q.replayed)]

start_trx_replay_never(w) == [w EXCEPT !.rv = FALSE]

\* RWSplitSession::start_trx_replay().  History: w4 counts the attempts,
\* one for each time the replay of the transaction is started.
start_trx_replay(w) ==
    IF /\ m_config.transaction_replay
       /\ w.r.m_can_replay_trx
       /\ replay_attempts_left(w)
    THEN
        LET w1 == [w EXCEPT !.r.m_num_trx_replays = @ + 1]
            w2 == store_or_restore_trx(w1)
        IN  IF Trx_have_stmts(w2.r.m_trx) \/ w2.r.m_current_query # NoStmt
            THEN LET w3 == [w2 EXCEPT
                               !.r.m_interrupted_query = w2.r.m_current_query,
                               !.r.m_current_query = NoStmt,
                               !.r.m_is_replay_active = TRUE,
                               !.r.m_replayed_trx = w2.r.m_trx,
                               !.r.m_trx = EmptyTrx]
                     w4 == [w3 EXCEPT !.h.attempts = @ + 1]
                 IN  IF Trx_have_stmts(w4.r.m_replayed_trx)
                     THEN [retry_query(
                              [w4 EXCEPT !.r.m_replayed_trx = Trx_pop_stmt(@)],
                              Head(w4.r.m_replayed_trx.log))
                             EXCEPT !.rv = TRUE]
                     ELSE [retry_query(
                              [w4 EXCEPT !.r.m_interrupted_query = NoStmt],
                              w4.r.m_interrupted_query)
                             EXCEPT !.rv = TRUE]
            ELSE [w2 EXCEPT !.rv = TRUE]
    ELSE [w EXCEPT !.rv = FALSE]

\* RWSplitSession::RWSplitSession(): the fields after construction.  The
\* same value stands for the session after its destruction.
FreedSession ==
    [m_expected_responses |-> 0,
     m_query_queue |-> <<>>,
     m_current_query |-> NoStmt,
     m_current_master |-> NoBackend,
     m_prev_target |-> NoBackend,
     m_retry_duration |-> 0,
     m_trx |-> EmptyTrx,
     m_replayed_trx |-> EmptyTrx,
     m_orig_trx |-> EmptyTrx,
     m_interrupted_query |-> NoStmt,
     m_orig_stmt |-> NoStmt,
     m_is_replay_active |-> FALSE,
     m_can_replay_trx |-> TRUE,
     m_num_trx_replays |-> 0,
     m_sent_sescmd |-> 0,
     m_recv_sescmd |-> 0,
     m_gtid_pos |-> "",
     m_wait_gtid |-> "NONE",
     m_next_seq |-> 0,
     m_otrx_state |-> "OTRX_INACTIVE",
     load_data_active |-> FALSE,
     large_query |-> FALSE]

\* History: the transaction and the statement in progress at the moment
\* the connection failed that made the replay in progress necessary.
NoSnap == [trx |-> EmptyTrx, stmt |-> NoStmt]

\* History: the number of failed connections (bounded by MaxFails), the
\* snapshot, the number of times the replay in progress has been started,
\* whether the transaction of the client has exceeded trx_max_size,
\* whether the last step of the session took a statement from the queue,
\* the user and database of the last authentication that was valid,
\* whether a COM_QUIT has been handed to the router, the values
\* m_wait_gtid has had in the last step, whether the client has been
\* sent the reply to a ROLLBACK of the router, the number of errors of
\* backends that can be ignored (bounded by MaxIgnorable), and whether a
\* connection has failed after a part of a reply had arrived on it.
NoHist == [nfail |-> 0, snap |-> NoSnap, attempts |-> 0, too_big |-> FALSE,
           drained |-> FALSE, requeued |-> FALSE, ignored |-> 0,
           lost_in_result |-> FALSE,
           authed |-> [user |-> FirstUser, db |-> FirstUser],
           quit_routed |-> FALSE, wait_path |-> <<"NONE">>,
           rollback_forwarded |-> FALSE]

\* dcb_close() of the client connection: the session is closed and with it
\* the router session (RWSplitSession::close) and the delayed calls.
session_close(w) ==
    [w EXCEPT !.s.state = "stopped",
              !.b = [b \in Backends |-> Backend_close(w.b[b])],
              !.d = <<>>,
              !.r = FreedSession,
              !.h = [NoHist EXCEPT !.nfail = w.h.nfail,
                                   !.lost_in_result = w.h.lost_in_result,
                                   !.authed = w.h.authed,
                                   !.quit_routed = w.h.quit_routed,
                                   !.wait_path = w.h.wait_path,
                                   !.rollback_forwarded =
                                       w.h.rollback_forwarded]]

\* ----------------------------------------------------------- causal reads
\* A packet of a reply is [no, seq, type]: its place in the reply as the
\* backend has sent it (which stands for its payload), the sequence number
\* in its header, and whether it is an OK packet, an ERR packet or a packet
\* of a result set.
Packet(no, type) == [no |-> no, seq |-> no, type |-> type]

\* discard_master_wait_gtid_result(): the first packet of the buffer is the
\* result of the MASTER_GTID_WAIT.
discard_master_wait_gtid_result(w) ==
    IF Head(w.buf).type = "ok"
    THEN [set_wait_gtid(w, "UPDATING_PACKETS") EXCEPT !.r.m_next_seq = 1,
                                                      !.buf = Tail(@)]
    ELSE IF Head(w.buf).type = "err"
    THEN set_wait_gtid(w, "RETRYING_ON_MASTER")
    ELSE w

\* correct_packet_sequence(): every packet of the buffer gets the next
\* sequence number (one byte of the header).
correct_packet_sequence(w) ==
    [w EXCEPT !.buf = [i \in 1..Len(w.buf) |->
                          [w.buf[i] EXCEPT
                              !.seq = (w.r.m_next_seq + i - 1) % 256]],
              !.r.m_next_seq = @ + Len(w.buf)]

\* handle_causal_read_reply(): w.buf is the buffer that is left to route.
handle_causal_read_reply(w, b) ==
    IF ~m_config.causal_reads THEN w
    ELSE LET w1 == IF Head(w.buf).type = "ok" /\ b = w.r.m_current_master
                   THEN [w EXCEPT !.r.m_gtid_pos = "gtid"]
                   ELSE w
             w2 == IF w1.r.m_wait_gtid = "WAITING_FOR_HEADER"
                   THEN discard_master_wait_gtid_result(w1)
                   ELSE w1
         IN  IF w2.r.m_wait_gtid = "UPDATING_PACKETS" /\ w2.buf # <<>>
             THEN correct_packet_sequence(w2)
             ELSE w2

\* mxs_mysql_is_ok_packet()
is_ok_packet(buf) == buf # <<>> /\ Head(buf).type = "ok"

\* RWSplitSession::manage_transactions().
\* History: the transaction has got too big.
manage_transactions(w, b, data) ==
    IF w.r.m_otrx_state = "OTRX_ROLLBACK"
    THEN IF is_ok_packet(w.buf) THEN w ELSE terminate(w, 0)
    ELSE IF /\ m_config.transaction_replay
       /\ w.r.m_can_replay_trx
       /\ session_trx_is_active(w)
    THEN IF has_session_commands(w, b) THEN w ELSE
         LET size == w.r.m_trx.size + StmtLen(w.r.m_current_query)
         IN  IF size < m_config.trx_max_size
             THEN LET t1 == Trx_add_result(w.r.m_trx, data)
                      t2 == IF w.r.m_current_query # NoStmt
                            THEN Trx_add_stmt(t1, w.r.m_current_query)
                            ELSE t1
                  IN  [w EXCEPT !.r.m_trx = t2, !.r.m_current_query = NoStmt]
             ELSE [w EXCEPT !.r.m_current_query = NoStmt,
                            !.r.m_trx = EmptyTrx,
                            !.r.m_can_replay_trx = FALSE,
                            !.h.too_big = TRUE]
    ELSE IF w.r.m_wait_gtid = "RETRYING_ON_MASTER"
    THEN w
    ELSE [w EXCEPT !.r.m_current_query = NoStmt]

\* clientReply(), lines 636-651: the wait for the GTID has failed; the read
\* is routed again, to the master.  m_current_query.release() is used
\* without a test: when the statement is not there any more a null pointer
\* is written through, which ends the process and the session with it.
retry_on_master(w) ==
    IF w.r.m_current_query = NoStmt
    THEN session_close(w)
    ELSE retry_query([set_wait_gtid(w, "NONE")
                         EXCEPT !.r.m_current_query = NoStmt],
                     hint_route_to_master(w.r.m_current_query))

\* clientReply(), lines 687-767: the session command response, the reply
\* of a replay, the queue and the buffer for the client.  q is the
\* statement that is answered.
\* History: the reply to COMMIT is the end of the transaction.
reply_end(w5, q, complete) ==
    IF complete /\ q.kind = "commit"
    THEN [w5 EXCEPT !.h.too_big = FALSE]
    ELSE w5

\* RWSplitSession::close_stale_connections(): the connections to servers
\* that are not usable any more or not of the current rank are closed.
close_stale_connections(w) ==
    [w EXCEPT !.b = [b \in Backends |->
        IF ~w.b[b].in_use THEN w.b[b]
        ELSE IF ~can_connect(b)
        THEN IF /\ b = w.r.m_current_master
                /\ can_continue_using_master(w, b)
                /\ ~session_trx_is_ending(w)
             THEN w.b[b]
             ELSE Backend_close(w.b[b])
        ELSE IF rank(b) # get_current_rank(w)
        THEN Backend_close(w.b[b])
        ELSE w.b[b]]]

\* clientReply(), lines 752-766: the buffer goes to the client; with no
\* reply outstanding the stale connections are closed.
reply_route(w4, q, discard, complete) ==
    LET w5 == IF discard THEN w4 ELSE reply_to_client(w4, q, complete)
    IN  IF w5.r.m_expected_responses = 0
        THEN close_stale_connections(w5)
        ELSE w5

\* Variant: the replies of a replay are forwarded like any other reply.
reply_queue_forward(w3, q, processed_sescmd, replaying, discard, complete) ==
    reply_route(IF /\ complete \/ ~processed_sescmd
                   /\ w3.r.m_expected_responses = 0
                   /\ w3.r.m_query_queue # <<>>
                   /\ (~w3.r.m_is_replay_active \/ processed_sescmd)
                THEN route_stored_query(w3)
                ELSE w3,
                q, discard, complete)

\* clientReply(), lines 696-750: the reply of a replayed statement of a
\* transaction whose results the client has is discarded; any other reply
\* goes on, after the queue has been looked at.
reply_queue(w3, q, processed_sescmd, replaying, discard, complete) ==
    IF replaying /\ ~Trx_empty(w3.r.m_replayed_trx)
    THEN \* the client already has this response: it is discarded
         w3
    ELSE reply_route(IF /\ complete \/ ~processed_sescmd
                        /\ w3.r.m_expected_responses = 0
                        /\ w3.r.m_query_queue # <<>>
                        /\ (~w3.r.m_is_replay_active \/ processed_sescmd)
                     THEN route_stored_query(w3)
                     ELSE w3,
                     q, discard, complete)

reply_process(w2, b, q, processed_sescmd, complete) ==
    LET replaying == ~processed_sescmd /\ w2.r.m_is_replay_active
        discard == processed_sescmd /\ sescmd_discard(w2, b)
    IN  reply_end(
            reply_queue(
                IF processed_sescmd
                THEN process_sescmd_response(w2, b, complete)
                ELSE IF replaying
                THEN IF w2.r.m_expected_responses = 0
                     THEN trx_replay_next_stmt(w2)
                     ELSE w2
                ELSE IF /\ m_config.transaction_replay
                        /\ session_trx_is_ending(w2)
                THEN [w2 EXCEPT !.r.m_trx = EmptyTrx,
                                !.r.m_can_replay_trx = TRUE]
                ELSE w2,
                q, processed_sescmd, replaying, discard, complete),
            q, complete)

\* clientReply(), lines 662-679: the reply is complete and is not the
\* error of a wait.
reply_complete(w2, b, q, processed_sescmd) ==
    IF w2.r.m_otrx_state = "OTRX_ROLLBACK"
    THEN \* the transaction is rolled back: replay it on the master
         start_trx_replay([w2 EXCEPT !.r.m_otrx_state = "OTRX_INACTIVE"])
    ELSE reply_process(w2, b, q, processed_sescmd, TRUE)

\* clientReply(), lines 623-685, after manage_transactions().
reply_managed(w1, b, q, processed_sescmd, complete) ==
    IF ~complete
    THEN reply_process([w1 EXCEPT !.b[b].started = TRUE], b, q,
                       processed_sescmd, FALSE)
    ELSE IF w1.r.m_wait_gtid = "RETRYING_ON_MASTER"
    THEN retry_on_master([w1 EXCEPT !.b[b] = Backend_ack_write(@),
                                    !.r.m_expected_responses = @ - 1])
    ELSE reply_complete(
             [(IF m_config.causal_reads THEN set_wait_gtid(w1, "NONE")
               ELSE w1)
                 EXCEPT !.b[b] = Backend_ack_write(@),
                        !.r.m_expected_responses = @ - 1],
             b, q, processed_sescmd)

\* clientReply(), lines 594-621, after handle_causal_read_reply().
reply_causal(w0, b, q, processed_sescmd, data, complete) ==
    IF m_config.causal_reads /\ w0.buf = <<>>
    THEN \* nothing is left to route (lines 594-597)
         [w0 EXCEPT !.b[b].started = TRUE]
    ELSE reply_managed(manage_transactions(w0, b, data), b, q,
                       processed_sescmd, complete)

\* RWSplitSession::clientReply(): one buffer of the reply of backend b; it
\* holds result data and is or is not the last buffer of the reply.
clientReply(w, b, data, complete) ==
    reply_causal(handle_causal_read_reply(w, b), b, w.b[b].cmd,
                 has_session_commands(w, b), data, complete)

\* ------------------------------------------------------- backend failures
\* RWSplitSession::retry_master_query(), without session commands
retry_master_query(w) ==
    IF w.r.m_current_query # NoStmt
    THEN [retry_query([w EXCEPT !.r.m_current_query = NoStmt],
                      w.r.m_current_query)
            EXCEPT !.rv = TRUE]
    ELSE [w EXCEPT !.rv = FALSE]

\* The n first elements of a set of backends, in the order of the names
\* (backend_cmp_global_conn on servers with equal connection counts).
RECURSIVE pick(_, _)
pick(S, n) ==
    IF n <= 0 \/ S = {} THEN {}
    ELSE LET x == CHOOSE y \in S : \A z \in S : y = "A" \/ z # "A"
         IN  {x} \cup pick(S \ {x}, n - 1)

\* RWSplitSession::open_connections(), lazy_connect off
open_connections(w) ==
    LET master == get_root_master(w)
    IN  IF /\ (master = NoBackend \/ ~can_connect(master))
           /\ m_config.master_failure_mode = "fail_instantly"
        THEN [w EXCEPT !.rv = FALSE]
        ELSE LET w1 == IF /\ master # NoBackend
                          /\ ~w.b[master].in_use
                          /\ can_connect(master)
                       THEN [w EXCEPT !.b[master].in_use = TRUE,
                                      !.r.m_current_master = master]
                       ELSE w
                 n_slaves == slaves_connected(w1, master)
                 candidates == {b \in Backends :
                                   /\ ~w1.b[b].in_use
                                   /\ role[b] = "slave"
                                   /\ b # master
                                   /\ rank(b) = get_current_rank(w1)}
                 chosen == pick(candidates, max_slave_count - n_slaves)
             IN  [w1 EXCEPT !.b = [b \in Backends |->
                                      IF b \in chosen
                                      THEN [w1.b[b] EXCEPT !.in_use = TRUE]
                                      ELSE w1.b[b]],
                            !.rv = TRUE]

\* handle_error_new_connection() that does not retry the read.
handle_error_no_retry(w, b) ==
    LET waiting == is_waiting_result(w, b)
        w1 == IF waiting
              THEN [error_to_client(w, ER_BACKEND)
                       EXCEPT !.r.m_expected_responses = @ - 1,
                              !.r.m_current_query = NoStmt]
              ELSE w
    IN  open_connections([w1 EXCEPT !.b[b] = Backend_close(@)])

\* RWSplitSession::handle_error_new_connection()
handle_error_new_connection(w, b) ==
    LET waiting == is_waiting_result(w, b)
        w1 == IF waiting
              THEN [w EXCEPT !.r.m_expected_responses = @ - 1]
              ELSE w
        retry == /\ waiting
                 /\ w1.r.m_current_query # NoStmt
                 /\ m_config.retry_failed_reads
        route_stored == waiting /\ w1.r.m_expected_responses = 0 /\ ~retry
        w2 == IF retry
              THEN retry_query([w1 EXCEPT !.r.m_current_query = NoStmt],
                               w1.r.m_current_query)
              ELSE IF waiting
              THEN [error_to_client(w1, ER_BACKEND)
                       EXCEPT !.r.m_current_query = NoStmt]
              ELSE w1
        w3 == [w2 EXCEPT !.b[b] = Backend_close(@)]
        w4 == IF route_stored THEN route_stored_query(w3) ELSE w3
    IN  open_connections(w4)

\* handleError() that ends the session at every failure of a connection.
handleError_close(w, b) == [terminate(w, 0) EXCEPT !.rv = FALSE]

\* RWSplitSession::handleError(): the connection of backend b has failed.
handleError(w, b) ==
    IF w.b[b].started
    THEN [terminate(w, 0) EXCEPT !.rv = FALSE]
    ELSE IF /\ w.r.m_current_master # NoBackend
            /\ w.b[w.r.m_current_master].in_use
            /\ w.r.m_current_master = b
    THEN LET expected_response == is_waiting_result(w, b)
             w1 == IF ~expected_response
                   THEN [w EXCEPT !.rv =
                            (m_config.master_failure_mode # "fail_instantly")]
                   ELSE IF can_retry_query(w)
                   THEN retry_master_query(w)
                   ELSE IF m_config.master_failure_mode = "error_on_write"
                   THEN [error_to_client(w, ER_READ_ONLY) EXCEPT !.rv = TRUE]
                   ELSE [w EXCEPT !.rv = FALSE]
             w2 == IF /\ session_trx_is_active(w1)
                      /\ w1.r.m_otrx_state = "OTRX_INACTIVE"
                   THEN start_trx_replay(w1)
                   ELSE w1
             w3 == IF w2.rv /\ expected_response
                   THEN [w2 EXCEPT !.r.m_expected_responses = @ - 1]
                   ELSE w2
         IN  [w3 EXCEPT !.b[b] = Backend_close(@)]
    ELSE IF w.r.m_otrx_state # "OTRX_INACTIVE"
    THEN LET w1 == start_trx_replay(
                       [w EXCEPT !.r.m_otrx_state = "OTRX_INACTIVE"])
         IN  [w1 EXCEPT !.b[b] = Backend_close(@)]
    ELSE handle_error_new_connection(w, b)

\* ------------------------------------------------------- client protocol
\* track_transaction_state(): the session's transaction state follows the
\* statements of the client as they arrive.
track_transaction_state(w, q) ==
    LET w1 == IF session_trx_is_ending(w)
              THEN [w EXCEPT !.s.trx_active = FALSE, !.s.trx_ending = FALSE]
              ELSE w
    IN  IF q.kind = "begin"
        THEN [w1 EXCEPT !.s.trx_active = TRUE, !.s.trx_ending = FALSE]
        ELSE IF q.kind = "commit"
        THEN [w1 EXCEPT !.s.trx_ending = TRUE]
        ELSE w1

\* MySQLProtocol::track_query(): the command of the packet is tracked,
\* except while the reply to the AuthSwitchRequest is awaited.
track_query(w, q) ==
    IF w.p.changing_user THEN w
    ELSE [w EXCEPT !.p.command = IF q.kind = "change_user"
                                 THEN "COM_CHANGE_USER"
                                 ELSE IF q.kind = "quit"
                                 THEN "COM_QUIT" ELSE "COM_QUERY"]

\* reauthenticate_client(): the reply of the client to the
\* AuthSwitchRequest is validated (client_auth->reauthenticate); a reply
\* that is not valid is answered with error 1045.
\* The user and the database named in the stored COM_CHANGE_USER are
\* copied to the session data (lines 1000-1002) before the validation.
\* History: the user and database of a validation that succeeded.
reauthenticate_client(w, q) ==
    LET user == ChangeUserName(w.p.stored_query)
        db == ChangeUserDb(w.p.stored_query)
        w1 == [w EXCEPT !.p.data_user = user, !.p.data_db = db]
    IN  IF q.kind = "auth_ok"
        THEN [w1 EXCEPT !.h.authed = [user |-> user, db |-> db],
                        !.rv = TRUE]
        ELSE [error_to_client(w1, ER_ACCESS_DENIED) EXCEPT !.rv = FALSE]

\* handle_change_user(): w.pkt is the packet to route (*packetbuf), w.rv
\* the result.  The result of reauthenticate_client() is assigned to a
\* variable of the inner block, and the ok that is returned stays true.
handle_change_user(w, q) ==
    IF ~w.p.changing_user /\ w.p.command = "COM_CHANGE_USER"
    THEN [w EXCEPT !.p.data_changing_user = TRUE,
                   !.p.changed_user = TRUE,
                   !.c.auth_switch = TRUE,
                   !.p.stored_query = q,
                   !.pkt = NoStmt,
                   !.rv = TRUE]
    ELSE IF w.p.changing_user
    THEN LET w1 == reauthenticate_client(
                       [w EXCEPT !.p.changing_user = FALSE], q)
         IN  [w1 EXCEPT !.pkt = w1.p.stored_query,
                        !.p.stored_query = NoStmt,
                        !.rv = TRUE]
    ELSE [w EXCEPT !.pkt = q, !.rv = TRUE]

\* route_by_statement(), for the one packet that has been read.
\* process_special_commands() returns RES_CONTINUE for every command of the
\* model (for COM_QUIT it marks the session as one that qualifies for the
\* connection pool).  History: the packet handed to the router is a
\* COM_QUIT.
route_by_statement(w, q) ==
    LET w1 == track_transaction_state(track_query(w, q), q)
        w2 == handle_change_user([w1 EXCEPT !.p.changed_user = FALSE], q)
    IN  IF ~w2.rv
        THEN w2
        ELSE LET w3 == IF w2.pkt # NoStmt
                       THEN routeQuery(
                                [w2 EXCEPT !.h.quit_routed =
                                               @ \/ w2.pkt.kind = "quit"],
                                w2.pkt)
                       ELSE w2
             IN  [w3 EXCEPT !.p.changing_user = w2.p.changed_user,
                            !.p.changed_user = FALSE,
                            !.pkt = NoStmt]

\* ---------------------------------------------------------------- Init

\* Config::Config(): transaction_replay turns delayed_retry and
\* master_reconnection on and sets master_failure_mode to fail_on_write.
Configs ==
    {[transaction_replay |-> TRUE, delayed_retry |-> TRUE,
      master_reconnection |-> TRUE, master_failure_mode |-> "fail_on_write",
      trx_max_attempts |-> c[1], trx_max_size |-> c[2],
      retry_failed_reads |-> FALSE, max_slave_connections |-> 1,
      causal_reads |-> FALSE, optimistic_trx |-> FALSE,
      backend_select_fct |-> "in_use",
      rank |-> [b \in ManyServers |-> 1]] :
        c \in {<<1, SmallTrxSize>>, <<2, BigTrxSize>>}}
    \cup
    {[transaction_replay |-> FALSE, delayed_retry |-> c[1],
      master_reconnection |-> FALSE, master_failure_mode |-> c[2],
      trx_max_attempts |-> 1, trx_max_size |-> BigTrxSize,
      retry_failed_reads |-> c[3], max_slave_connections |-> 1,
      causal_reads |-> FALSE, optimistic_trx |-> FALSE,
      backend_select_fct |-> "in_use",
      rank |-> [b \in ManyServers |-> 1]] :
        c \in {<<FALSE, "fail_on_write", FALSE>>,
               <<TRUE, "error_on_write", TRUE>>}}

Init ==
    /\ m_config \in Configs
    /\ role = [b \in Servers |-> IF b = "A" THEN "master" ELSE "slave"]
    /\ rses = [FreedSession EXCEPT !.m_current_master = "A"]
    /\ backends = [b \in Backends |->
                      [in_use |-> TRUE, cmd |-> NoStmt, started |-> FALSE,
                       sent |-> 0]]
    /\ session = [state |-> "started", trx_active |-> FALSE,
                  trx_ending |-> FALSE]
    /\ client = [sent |-> 0, got |-> [i \in 1..MaxStmts |-> 0],
                 errors |-> {}, auth_switch |-> FALSE, pkts |-> <<>>]
    /\ delayed = <<>>
    /\ proto = [changing_user |-> FALSE, stored_query |-> NoStmt,
                command |-> "COM_QUERY", data_changing_user |-> FALSE,
                changed_user |-> FALSE, data_user |-> FirstUser,
                data_db |-> FirstUser]
    /\ hist = NoHist
    /\ InitCore

World == [r |-> rses, b |-> backends, s |-> session, c |-> client,
          d |-> delayed,
          h |-> [hist EXCEPT !.drained = FALSE,
                             !.requeued = FALSE,
                             !.wait_path = <<rses.m_wait_gtid>>],
          p |-> proto, rv |-> TRUE,
          pkt |-> NoStmt, buf |-> <<>>]

Apply(w) ==
    /\ rses' = w.r
    /\ backends' = w.b
    /\ session' = w.s
    /\ client' = w.c
    /\ delayed' = w.d
    /\ hist' = w.h
    /\ proto' = w.p

\* -------------------------------------------------------------- actions
\* The client opens a transaction only outside of one and commits only
\* inside of one.
client_in_trx == session.trx_active /\ ~session.trx_ending

\* perform_normal_read(): a packet of the client has been read.  A session
\* that is not started any more drops it and closes the connection, and so
\* does a session whose routing fails or whose packet was a COM_QUIT.
perform_normal_read(w, q) ==
    IF w.s.state # "started"
    THEN session_close(w)
    ELSE LET w1 == route_by_statement(w, q)
         IN  IF w1.rv /\ w1.p.command # "COM_QUIT"
             THEN w1
             ELSE session_close(w1)

\* A statement of the client arrives.  The client sends as many packets as
\* it has room for replies.
ClientStmt(kind) ==
    /\ session.state # "stopped"
    /\ client.sent < Len(client.got)
    /\ ~proto.changing_user
    /\ kind = "begin" => ~client_in_trx
    /\ kind = "commit" => client_in_trx
    /\ LET q == [id |-> client.sent + 1, kind |-> kind, replayed |-> FALSE]
       IN  Apply(perform_normal_read([World EXCEPT !.c.sent = @ + 1], q))
    /\ UNCHANGED <<m_config, role, core_vars>>

\* The COM_CHANGE_USER of the client arrives.
ChangeUser ==
    /\ session.state = "started"
    /\ client.sent < Len(client.got)
    /\ ~proto.changing_user
    /\ ~client_in_trx
    /\ LET q == [id |-> client.sent + 1, kind |-> "change_user",
                 replayed |-> FALSE]
       IN  Apply(perform_normal_read([World EXCEPT !.c.sent = @ + 1], q))
    /\ UNCHANGED <<m_config, role, core_vars>>

\* The COM_QUIT of the client arrives.
ClientQuit ==
    /\ session.state = "started"
    /\ client.sent < Len(client.got)
    /\ ~proto.changing_user
    /\ LET q == [id |-> client.sent + 1, kind |-> "quit", replayed |-> FALSE]
       IN  Apply(perform_normal_read([World EXCEPT !.c.sent = @ + 1], q))
    /\ UNCHANGED <<m_config, role, core_vars>>

\* The reply of the client to the AuthSwitchRequest arrives; its token is
\* the one of the new user or it is not.
AuthSwitchReply(kind) ==
    /\ session.state = "started"
    /\ proto.changing_user
    /\ client.auth_switch
    /\ LET q == [id |-> 0, kind |-> kind, replayed |-> FALSE]
       IN  Apply(perform_normal_read([World EXCEPT !.c.auth_switch = FALSE],
                                     q))
    /\ UNCHANGED <<m_config, role, core_vars>>

\* session_delay_routing(): a statement that retry_query() has set aside
\* is routed.  A session that is stopping routes nothing any more.
RouteDelayed ==
    /\ session.state = "started"
    /\ delayed # <<>>
    /\ LET w1 == routeQuery([World EXCEPT !.d = Tail(@)], Head(delayed))
       IN  Apply(IF w1.rv THEN w1 ELSE terminate(w1, 0))
    /\ UNCHANGED <<m_config, role, core_vars>>

\* A buffer of the reply of backend b arrives (session_ok_to_route(): the
\* backend protocol hands replies and errors to the router only while the
\* session is started).  The last buffer of a reply holds the result; the
\* buffers before it are the same in every execution of a statement and
\* add nothing to what tells two results apart.  The result of the first
\* execution of a statement is 0; that of a repeated execution is the same
\* or another one.
BackendReply(b, byte, complete) ==
    /\ session.state = "started"
    /\ backends[b].in_use
    /\ backends[b].cmd # NoStmt
    /\ can_connect(b)
    /\ backends[b].cmd.kind # "rollback"
    /\ byte # 0 => complete /\ backends[b].cmd.replayed
    /\ Apply(clientReply(World, b, IF complete THEN <<byte>> ELSE <<>>,
                         complete))
    /\ UNCHANGED <<m_config, role, core_vars>>

\* The connection of backend b fails.  The session is stopped when
\* handleError() returns false.
BackendFail(b) ==
    /\ session.state = "started"
    /\ backends[b].in_use
    /\ hist.nfail < MaxFails
    /\ LET first == ~rses.m_is_replay_active
           w0 == [World EXCEPT
                     !.h.nfail = @ + 1,
                     !.h.lost_in_result = @ \/ backends[b].started,
                     !.h.snap = IF first
                                THEN [trx |-> rses.m_trx,
                                      stmt |-> rses.m_current_query]
                                ELSE @]
           w1 == handleError(w0, b)
       IN  Apply(IF w1.rv THEN w1 ELSE terminate(w1, 0))
    /\ UNCHANGED <<m_config, role, core_vars>>

\* mariadbclient_hangup(): the hangup that terminate() has scheduled.
Hangup ==
    /\ session.state = "stopping"
    /\ Apply(session_close(error_to_client(World, ER_TRX_REPLAY)))
    /\ UNCHANGED <<m_config, role, core_vars>>

\* The monitor finds the master down.
ServerDown(b) ==
    /\ role[b] = "master"
    /\ \E c \in Backends : c # b /\ role[c] # "down"
    /\ role' = [role EXCEPT ![b] = "down"]
    /\ UNCHANGED <<m_config, rses, backends, session, client, delayed, proto,
                   hist, core_vars>>

\* The monitor promotes a slave when there is no master.
Promote(b) ==
    /\ role[b] = "slave"
    /\ \A c \in Backends : role[c] # "master"
    /\ role' = [role EXCEPT ![b] = "master"]
    /\ UNCHANGED <<m_config, rses, backends, session, client, delayed, proto,
                   hist, core_vars>>

Next ==
    \/ \E kind \in StmtKinds : ClientStmt(kind)
    \/ RouteDelayed
    \/ \E b \in Backends, byte \in Bytes, complete \in BOOLEAN :
           BackendReply(b, byte, complete)
    \/ \E b \in Backends : BackendFail(b)
    \/ Hangup
    \/ \E b \in Backends : ServerDown(b)
    \/ \E b \in Backends : Promote(b)

Spec == Init /\ [][Next]_vars

\* The session of a client that changes the user and quits, with backends
\* that stay up.
NextChangeUser ==
    \/ \E kind \in StmtKinds : ClientStmt(kind)
    \/ ChangeUser
    \/ \E kind \in {"auth_ok", "auth_bad"} : AuthSwitchReply(kind)
    \/ ClientQuit
    \/ \E b \in Backends, byte \in Bytes, complete \in BOOLEAN :
           BackendReply(b, byte, complete)

SpecChangeUser == Init /\ [][NextChangeUser]_vars

\* The session of a service with master_failure_mode error_on_write,
\* with and without delayed_retry.
ErrorOnWriteConfigs ==
    {[c EXCEPT !.delayed_retry = d] :
        c \in {x \in Configs : x.master_failure_mode = "error_on_write"},
        d \in BOOLEAN}

InitErrorOnWrite ==
    /\ m_config \in ErrorOnWriteConfigs
    /\ role = [b \in Servers |-> IF b = "A" THEN "master" ELSE "slave"]
    /\ rses = [FreedSession EXCEPT !.m_current_master = "A"]
    /\ backends = [b \in Backends |->
                      [in_use |-> TRUE, cmd |-> NoStmt, started |-> FALSE,
                       sent |-> 0]]
    /\ session = [state |-> "started", trx_active |-> FALSE,
                  trx_ending |-> FALSE]
    /\ client = [sent |-> 0, got |-> [i \in 1..MaxStmts |-> 0],
                 errors |-> {}, auth_switch |-> FALSE, pkts |-> <<>>]
    /\ delayed = <<>>
    /\ proto = [changing_user |-> FALSE, stored_query |-> NoStmt,
                command |-> "COM_QUERY", data_changing_user |-> FALSE,
                changed_user |-> FALSE, data_user |-> FirstUser,
                data_db |-> FirstUser]
    /\ hist = NoHist
    /\ InitCore

SpecErrorOnWrite == InitErrorOnWrite /\ [][Next]_vars

\* The session of a service with three servers, a master and two slaves,
\* and at most one or two slave connections.

\* rw_max_slave_conn_percent of the services: a tenth and two thirds of
\* the servers.
SlaveConnPercents == {10, 67}

\* RWSplitSession::RWSplitSession(): max_slave_connections of a session
\* whose service gives it as a percentage of its n servers.
rw_max_slave_conn(n, percent) ==
    IF (n * percent) \div 100 > 1 THEN (n * percent) \div 100 ELSE 1

SlaveConfigs ==
    {[c EXCEPT !.max_slave_connections =
                   rw_max_slave_conn(Cardinality(ManyServers), pct),
               !.backend_select_fct = f] :
        c \in {x \in Configs : ~x.transaction_replay},
        pct \in SlaveConnPercents, f \in {"in_use", "idle"}}

\* The session after RWSplit::newSession(): the constructor and
\* open_connections().
InitSlaves ==
    /\ m_config \in SlaveConfigs
    /\ role = [b \in ManyServers |-> IF b = "A" THEN "master" ELSE "slave"]
    /\ LET w == open_connections(
                    [r |-> FreedSession,
                     b |-> [b \in Backends |->
                               [in_use |-> FALSE, cmd |-> NoStmt,
                                started |-> FALSE, sent |-> 0]],
                     rv |-> TRUE])
       IN  rses = w.r /\ backends = w.b
    /\ session = [state |-> "started", trx_active |-> FALSE,
                  trx_ending |-> FALSE]
    /\ client = [sent |-> 0, got |-> [i \in 1..MaxStmts |-> 0],
                 errors |-> {}, auth_switch |-> FALSE, pkts |-> <<>>]
    /\ delayed = <<>>
    /\ proto = [changing_user |-> FALSE, stored_query |-> NoStmt,
                command |-> "COM_QUERY", data_changing_user |-> FALSE,
                changed_user |-> FALSE, data_user |-> FirstUser,
                data_db |-> FirstUser]
    /\ hist = NoHist
    /\ InitCore

SpecSlaves == InitSlaves /\ [][Next]_vars

\* The session of a service whose three servers have the ranks 1 (primary)
\* and 2 (secondary) in some combination.
RankedConfigs ==
    {[c EXCEPT !.rank = r] :
        c \in {x \in SlaveConfigs : /\ x.max_slave_connections = 2
                                     /\ x.backend_select_fct = "idle"
                                     /\ x.retry_failed_reads},
        r \in {[A |-> 1, B |-> 1, C |-> 2], [A |-> 2, B |-> 2, C |-> 1],
               [A |-> 1, B |-> 2, C |-> 1]}}

InitRanked ==
    /\ m_config \in RankedConfigs
    /\ role = [b \in ManyServers |-> IF b = "A" THEN "master" ELSE "slave"]
    /\ LET w == open_connections(
                    [r |-> FreedSession,
                     b |-> [b \in Backends |->
                               [in_use |-> FALSE, cmd |-> NoStmt,
                                started |-> FALSE, sent |-> 0]],
                     rv |-> TRUE])
       IN  rses = w.r /\ backends = w.b
    /\ session = [state |-> "started", trx_active |-> FALSE,
                  trx_ending |-> FALSE]
    /\ client = [sent |-> 0, got |-> [i \in 1..MaxStmts |-> 0],
                 errors |-> {}, auth_switch |-> FALSE, pkts |-> <<>>]
    /\ delayed = <<>>
    /\ proto = [changing_user |-> FALSE, stored_query |-> NoStmt,
                command |-> "COM_QUERY", data_changing_user |-> FALSE,
                changed_user |-> FALSE, data_user |-> FirstUser,
                data_db |-> FirstUser]
    /\ hist = NoHist
    /\ InitCore

SpecRanked == InitRanked /\ [][Next]_vars

\* Causal reads: the session of a client with causal_reads on.  The master
\* stays up; the connection of a slave can fail.
MaxCausalStmts == 3

CausalConfigs ==
    {[c EXCEPT !.causal_reads = TRUE] :
        c \in {x \in Configs : x.trx_max_size = BigTrxSize}}

InitCausal ==
    /\ m_config \in CausalConfigs
    /\ role = [b \in Servers |-> IF b = "A" THEN "master" ELSE "slave"]
    /\ rses = [FreedSession EXCEPT !.m_current_master = "A"]
    /\ backends = [b \in Backends |->
                      [in_use |-> TRUE, cmd |-> NoStmt, started |-> FALSE,
                       sent |-> 0]]
    /\ session = [state |-> "started", trx_active |-> FALSE,
                  trx_ending |-> FALSE]
    /\ client = [sent |-> 0, got |-> [i \in 1..MaxCausalStmts |-> 0],
                 errors |-> {}, auth_switch |-> FALSE, pkts |-> <<>>]
    /\ delayed = <<>>
    /\ proto = [changing_user |-> FALSE, stored_query |-> NoStmt,
                command |-> "COM_QUERY", data_changing_user |-> FALSE,
                changed_user |-> FALSE, data_user |-> FirstUser,
                data_db |-> FirstUser]
    /\ hist = NoHist
    /\ InitCore

\* The packets of the reply to a statement, as the backend sends them.  A
\* read with the wait in front of it is answered with the OK of the wait
\* and the result of the read, or with the error of the wait.
Rows(first) == [i \in 1..MaxPkts |-> Packet(first + i - 1, "row")]

Stream(q, wait_ok) ==
    IF q.kind = "read_wait"
    THEN IF wait_ok THEN <<Packet(1, "ok")>> \o Rows(2)
         ELSE <<Packet(1, "err")>>
    ELSE IF q.kind \in {"read", "read_master"}
    THEN Rows(1)
    ELSE <<Packet(1, "ok")>>

\* A buffer with the next n packets of the reply of backend b arrives.
CausalReply(b, n, wait_ok) ==
    /\ session.state = "started"
    /\ backends[b].in_use
    /\ backends[b].cmd # NoStmt
    /\ can_connect(b)
    /\ LET stream == Stream(backends[b].cmd, wait_ok)
           k == backends[b].sent
           complete == k + n = Len(stream)
       IN  /\ k > 0 => wait_ok
           /\ k + n <= Len(stream)
           /\ Apply(clientReply(
                  [World EXCEPT !.buf = SubSeq(stream, k + 1, k + n),
                                !.b[b].sent = k + n],
                  b, IF complete THEN <<0>> ELSE <<>>, complete))
    /\ UNCHANGED <<m_config, role, core_vars>>

\* The connection of a slave fails.
SlaveFails ==
    \E b \in Backends : b # rses.m_current_master /\ BackendFail(b)

NextCausal ==
    \/ \E kind \in StmtKinds : ClientStmt(kind)
    \/ RouteDelayed
    \/ \E b \in Backends, n \in 1..(MaxPkts + 1), wait_ok \in BOOLEAN :
           CausalReply(b, n, wait_ok)
    \/ SlaveFails
    \/ Hangup

SpecCausal == InitCausal /\ [][NextCausal]_vars

\* Optimistic transactions: the session of a client with optimistic_trx
\* on, which turns transaction_replay on.  The master stays up; the
\* connection of a slave can fail.
MaxOtrxStmts == 3

OtrxConfigs ==
    {[c EXCEPT !.optimistic_trx = TRUE] :
        c \in {x \in Configs : x.transaction_replay}}

InitOtrx ==
    /\ m_config \in OtrxConfigs
    /\ role = [b \in Servers |-> IF b = "A" THEN "master" ELSE "slave"]
    /\ rses = [FreedSession EXCEPT !.m_current_master = "A"]
    /\ backends = [b \in Backends |->
                      [in_use |-> TRUE, cmd |-> NoStmt, started |-> FALSE,
                       sent |-> 0]]
    /\ session = [state |-> "started", trx_active |-> FALSE,
                  trx_ending |-> FALSE]
    /\ client = [sent |-> 0, got |-> [i \in 1..MaxOtrxStmts |-> 0],
                 errors |-> {}, auth_switch |-> FALSE, pkts |-> <<>>]
    /\ delayed = <<>>
    /\ proto = [changing_user |-> FALSE, stored_query |-> NoStmt,
                command |-> "COM_QUERY", data_changing_user |-> FALSE,
                changed_user |-> FALSE, data_user |-> FirstUser,
                data_db |-> FirstUser]
    /\ hist = NoHist
    /\ InitCore

\* The reply of the slave to the ROLLBACK of the router arrives: one
\* packet, an OK or an error.
RollbackReply(b, ok) ==
    /\ session.state = "started"
    /\ backends[b].in_use
    /\ backends[b].cmd.kind = "rollback"
    /\ can_connect(b)
    /\ Apply(clientReply(
           [World EXCEPT !.buf = <<Packet(1, IF ok THEN "ok" ELSE "err")>>],
           b, <<0>>, TRUE))
    /\ UNCHANGED <<m_config, role, core_vars>>

NextOtrx ==
    \/ \E kind \in StmtKinds : ClientStmt(kind)
    \/ RouteDelayed
    \/ \E b \in Backends, byte \in Bytes, complete \in BOOLEAN :
           BackendReply(b, byte, complete)
    \/ \E b \in Backends, ok \in BOOLEAN : RollbackReply(b, ok)
    \/ SlaveFails
    \/ Hangup

\* Fairness: the slave answers the ROLLBACK, and the worker makes the
\* delayed routing calls.
SpecOtrx ==
    /\ InitOtrx
    /\ [][NextOtrx]_vars
    /\ WF_vars(RouteDelayed)
    /\ WF_vars(\E b \in Backends, ok \in BOOLEAN : RollbackReply(b, ok))

\* The test clustrix_transaction_replay, run_test(): the client runs BEGIN
\* and a SELECT, the node it is connected to is stopped, and the client
\* runs one more SELECT and COMMIT.  try_query() sends a statement when the
\* reply of the one before has been read, and the statements after the
\* stop are sent when stop_server() has seen the node Down.
Script == <<"begin", "read", "read", "commit">>

\* The configuration of the test: transaction_replay is on and the
\* transaction is far below trx_max_size.  All nodes of a Clustrix cluster
\* are masters; the session is connected to both and uses one of them.
InitClustrix ==
    /\ m_config \in {[c EXCEPT !.trx_max_attempts = n] :
                        c \in {x \in Configs : /\ x.transaction_replay
                                               /\ x.trx_max_size = BigTrxSize},
                        n \in 1..2}
    /\ role = [b \in Servers |-> "master"]
    /\ rses \in {[FreedSession EXCEPT !.m_current_master = b] : b \in Backends}
    /\ backends = [b \in Backends |->
                      [in_use |-> TRUE, cmd |-> NoStmt, started |-> FALSE,
                       sent |-> 0]]
    /\ session = [state |-> "started", trx_active |-> FALSE,
                  trx_ending |-> FALSE]
    /\ client = [sent |-> 0, got |-> [i \in 1..Len(Script) |-> 0],
                 errors |-> {}, auth_switch |-> FALSE, pkts |-> <<>>]
    /\ delayed = <<>>
    /\ proto = [changing_user |-> FALSE, stored_query |-> NoStmt,
                command |-> "COM_QUERY", data_changing_user |-> FALSE,
                changed_user |-> FALSE, data_user |-> FirstUser,
                data_db |-> FirstUser]
    /\ hist = NoHist
    /\ InitCore

\* The node the test has stopped.
NodeIsDown == \E b \in Backends : role[b] = "down"

\* try_query(): the next statement of the test is sent.
ScriptStmt ==
    /\ session.state # "stopped"
    /\ client.sent < Len(Script)
    /\ \A i \in 1..client.sent : client.got[i] > 0
    /\ client.sent >= 2 => NodeIsDown
    /\ LET q == [id |-> client.sent + 1, kind |-> Script[client.sent + 1],
                 replayed |-> FALSE]
       IN  Apply(perform_normal_read([World EXCEPT !.c.sent = @ + 1], q))
    /\ UNCHANGED <<m_config, role, core_vars>>

\* stop_server(): the node the session uses is stopped after the SELECT
\* has been answered, and the monitor sees it Down.
NodeDown ==
    /\ client.sent = 2
    /\ client.got[2] > 0
    /\ ~NodeIsDown
    /\ ServerDown(rses.m_current_master)

\* The connection to the stopped node is lost.
ConnectionLost ==
    \E b \in Backends : role[b] = "down" /\ BackendFail(b)

\* A buffer of a reply arrives.  The table the test reads does not change:
\* a statement that is executed again has the result it had.
ReplyArrives ==
    \E b \in Backends, complete \in BOOLEAN : BackendReply(b, 0, complete)

NextClustrix ==
    \/ ScriptStmt
    \/ NodeDown
    \/ ConnectionLost
    \/ RouteDelayed
    \/ ReplyArrives

\* The client, the backends, the worker and the monitor all take their
\* steps: a step that is possible is taken.
SpecClustrix ==
    InitClustrix /\ [][NextClustrix]_vars /\ WF_vars(NextClustrix)

\* ------------------------------------------------------------ properties
\* A statement of the client arrives at a session that is started.
Arrives ==
    /\ session.state = "started"
    /\ client'.sent = client.sent + 1

\* The statement that arrives in this step is put at the end of the queue.
ArrivalQueued ==
    \E kind \in StmtKinds :
        rses'.m_query_queue =
            Append(rses.m_query_queue,
                   [id |-> client'.sent, kind |-> kind, replayed |-> FALSE])

\* C1: while the expected-response count is greater than zero, a statement
\* of the client that arrives is not written to any backend (nor set aside
\* for a delayed routing): it is put on the statement queue of the session.
C1_QueuedWhileReplyOutstanding ==
    [][Arrives /\ rses.m_expected_responses > 0
          => /\ backends' = backends
             /\ delayed' = delayed
             /\ rses'.m_expected_responses = rses.m_expected_responses
             /\ ArrivalQueued]_vars

\* C1 witness: a statement waits in the queue while a reply is outstanding
\* and no transaction is replayed.
C1_Witness ==
    /\ rses.m_query_queue # <<>>
    /\ rses.m_expected_responses > 0
    /\ ~rses.m_is_replay_active
    /\ \A b \in Backends :
           backends[b].cmd.id # rses.m_query_queue[1].id

\* The reply of the last statement that is outstanding is complete.
LastReplyCompletes ==
    /\ rses.m_expected_responses = 1
    /\ rses.m_query_queue # <<>>
    /\ \E b \in Backends, byte \in Bytes : BackendReply(b, byte, TRUE)

\* Statements have been taken from the front of the queue, until the queue
\* is empty or a reply is outstanding again.
Drained ==
    /\ \E n \in 1..Len(rses.m_query_queue) :
           rses'.m_query_queue =
               SubSeq(rses.m_query_queue, n + 1, Len(rses.m_query_queue))
    /\ rses'.m_query_queue # <<>> => rses'.m_expected_responses > 0

ReplayEndsInSuccess ==
    /\ rses.m_is_replay_active
    /\ ~rses'.m_is_replay_active
    /\ session'.state = "started"

\* C3, as the claim states it: whenever a replay ends in success, the
\* checksum of the results of the replay equals the checksum recorded for
\* the transaction before the failure.
C3_ChecksumEqualOnSuccess ==
    [][ReplayEndsInSuccess
          => rses'.m_trx.chk = hist.snap.trx.chk]_vars

\* C3, amended: whenever the replay of a transaction that had a statement
\* recorded ends in success, the checksum of the results of the replay
\* equals the checksum recorded for the transaction before the failure.
C3_ChecksumEqualUnlessEmpty ==
    [][ReplayEndsInSuccess /\ ~Trx_empty(rses.m_replayed_trx)
          => rses'.m_trx.chk = hist.snap.trx.chk]_vars

\* C3 witness: the replay of a transaction with recorded results has ended,
\* the session goes on and the checksums are equal.
C3_Witness ==
    /\ session.state = "started"
    /\ hist.nfail > 0
    /\ ~rses.m_is_replay_active
    /\ ~Trx_empty(rses.m_replayed_trx)
    /\ rses.m_replayed_trx.log = <<>>
    /\ rses.m_replayed_trx.chk # <<>>
    /\ rses.m_trx.chk = hist.snap.trx.chk

\* The last reply of a replay arrives and the checksum of the replayed
\* results differs from the one recorded before the failure.
ReplayMismatch ==
    /\ session.state = "started"
    /\ rses.m_is_replay_active
    /\ rses.m_expected_responses = 1
    /\ rses.m_replayed_trx.log = <<>>
    /\ ~Trx_empty(rses.m_replayed_trx)
    /\ \E b \in Backends, byte \in Bytes : BackendReply(b, byte, TRUE)
    /\ rses'.m_trx.chk # hist.snap.trx.chk

\* C4: when the checksum of the replayed transaction differs from the one
\* recorded before the failure, the client is sent error 1927 and the
\* session is stopped; the interrupted statement is not resumed, nothing
\* is routed, and a session that is stopping can only be closed.
C4_MismatchClosesWithError ==
    /\ [][ReplayMismatch
             => /\ ER_TRX_REPLAY \in client'.errors
                /\ session'.state = "stopping"
                /\ delayed' = delayed
                /\ rses'.m_interrupted_query = rses.m_interrupted_query
                /\ \A b \in Backends : backends'[b].cmd = NoStmt]_vars
    /\ [][session.state = "stopping"
             => \/ session'.state = "stopped"
                \/ UNCHANGED <<rses, backends, delayed, client, session>>]_vars

\* C4 witness: the replay has failed on a mismatch of the checksums: the
\* client has error 1927, the session is stopping and the interrupted
\* statement has not been routed.
C4_Witness ==
    /\ session.state = "stopping"
    /\ ER_TRX_REPLAY \in client.errors
    /\ rses.m_is_replay_active
    /\ rses.m_replayed_trx.chk # <<>>
    /\ rses.m_trx.chk # rses.m_replayed_trx.chk
    /\ rses.m_interrupted_query # NoStmt
    /\ delayed = <<>>

\* The connection of the master fails.
MasterFails ==
    \E b \in Backends : b = rses.m_current_master /\ BackendFail(b)

\* C5: for one interrupted transaction the replay is started at most
\* trx_max_attempts times; when the master fails with the cap reached, no
\* further replay is started and the session does not go on.
C5_AttemptCap ==
    /\ [](hist.attempts <= m_config.trx_max_attempts)
    /\ [][/\ MasterFails
           /\ session.trx_active
           /\ rses.m_is_replay_active
           /\ hist.attempts >= m_config.trx_max_attempts
           => /\ session'.state # "started"
              /\ hist'.attempts = hist.attempts
              /\ delayed' = delayed]_vars

\* C5 witness: the replay has been started as often as the cap allows, the
\* master has failed once more and the session is stopping.
C5_Witness ==
    /\ session.state = "stopping"
    /\ rses.m_is_replay_active
    /\ hist.attempts = m_config.trx_max_attempts
    /\ hist.nfail = hist.attempts + 1
    /\ ER_TRX_REPLAY \notin client.errors

\* The ids of a sequence of statements
Ids(seq) == [i \in DOMAIN seq |-> seq[i].id]

OneStmt(q) == IF q = NoStmt THEN <<>> ELSE <<q>>

\* C6: an attempt of a replay after the first starts from the snapshot
\* taken when the transaction first failed: the statements to replay
\* (the one set aside for routing, the ones left in the log and the
\* interrupted one) are the statements of the snapshot followed by its
\* interrupted statement, the checksum to compare with is the one of the
\* snapshot, and the results of the earlier attempt are dropped.
C6_ReplayFromSnapshot ==
    [][hist.attempts >= 1 /\ hist'.attempts = hist.attempts + 1
          => /\ delayed' # <<>>
             /\ Ids(<<delayed'[Len(delayed')]>> \o rses'.m_replayed_trx.log
                     \o OneStmt(rses'.m_interrupted_query))
                = Ids(hist.snap.trx.log \o OneStmt(hist.snap.stmt))
             /\ rses'.m_replayed_trx.chk = hist.snap.trx.chk
             /\ rses'.m_trx = EmptyTrx
             /\ hist'.snap = hist.snap]_vars

\* C6 witness: the second attempt of a replay has been started, and it
\* replays the statements of the snapshot from the first one on.
C6_Witness ==
    /\ hist.attempts = 2
    /\ session.state = "started"
    /\ hist.snap.trx.log # <<>>
    /\ rses.m_replayed_trx.chk = hist.snap.trx.chk
    /\ rses.m_trx = EmptyTrx
    /\ delayed # <<>>
    /\ delayed[1].id = hist.snap.trx.log[1].id

\* C7: once the transaction of the client has exceeded trx_max_size (the
\* history remembers it until the reply to COMMIT), no replay is started
\* for it when the master fails.
C7_NoReplayWhenTooBig ==
    [][hist.too_big /\ MasterFails
          => /\ hist'.attempts = hist.attempts
             /\ ~rses'.m_is_replay_active]_vars

\* The connection of the master fails while the reply of a statement is
\* awaited from it and the session is in a transaction.
MasterFailsAwaitingInTrx ==
    /\ session.trx_active
    /\ rses.m_current_master # NoBackend
    /\ backends[rses.m_current_master].cmd # NoStmt
    /\ MasterFails

\* The replay of the transaction is started in this step and the session
\* goes on.
ReplayedAndContinued ==
    /\ session'.state = "started"
    /\ rses'.m_is_replay_active
    /\ hist'.attempts = hist.attempts + 1
    /\ delayed' # <<>>

C9_StatementsAfterNodeDownSucceed ==
    /\ [](client.errors = {} /\ session.state = "started")
    /\ [](\A i \in 1..Len(Script) : client.got[i] <= 1)
    /\ <>(\A i \in 1..Len(Script) : client.got[i] = 1)

\* C9 witness: the node was stopped and its connection lost inside the
\* transaction, the transaction has been replayed, and the four statements
\* of the test are answered.
C9_Witness ==
    /\ NodeIsDown
    /\ hist.nfail = 1
    /\ client.sent = Len(Script)
    /\ \A i \in 1..Len(Script) : client.got[i] = 1
    /\ client.errors = {}
    /\ session.state = "started"
    /\ ~rses.m_is_replay_active
    /\ rses.m_current_master # NoBackend
    /\ role[rses.m_current_master] = "master"

\* C10: a COM_CHANGE_USER reaches the router only in the step in which the
\* reply of the client to the AuthSwitchRequest is validated; when the
\* validation fails, nothing reaches the router session or a backend.
C10_RejectedChangeUserNotRouted ==
    /\ [][ChangeUser => rses' = rses /\ backends' = backends]_vars
    /\ [][AuthSwitchReply("auth_bad")
             => rses' = rses /\ backends' = backends]_vars

\* C11: the user and the default database cached on the session are those
\* of the last authentication that was valid; a re-authentication that
\* fails leaves them as they were.
C11_CachedCredentialsValidated ==
    /\ proto.data_user = hist.authed.user
    /\ proto.data_db = hist.authed.db

\* C12: the step in which a re-authentication fails (the client is sent
\* error 1045) closes the session of the client.
C12_FailedReauthClosesSession ==
    [][/\ ER_ACCESS_DENIED \notin client.errors
       /\ ER_ACCESS_DENIED \in client'.errors
       => session'.state = "stopped"]_vars

\* C13: a COM_QUIT of the client is never handed to the router.
C13_QuitNotRouted == ~hist.quit_routed

\* The changes of the causal-read wait state that the claim allows.
WaitGtidChanges ==
    {<<"NONE", "WAITING_FOR_HEADER">>,
     <<"WAITING_FOR_HEADER", "UPDATING_PACKETS">>,
     <<"WAITING_FOR_HEADER", "RETRYING_ON_MASTER">>,
     <<"UPDATING_PACKETS", "NONE">>,
     <<"RETRYING_ON_MASTER", "NONE">>}

\* C14: m_wait_gtid changes only from NONE to WAITING_FOR_HEADER, from
\* there to UPDATING_PACKETS or RETRYING_ON_MASTER, and from these to NONE,
\* which it is set to when a reply is complete; in particular it is not
\* WAITING_FOR_HEADER when a reply is complete.
C14_WaitGtidStateMachine ==
    \A i \in 1..(Len(hist.wait_path) - 1) :
        \/ hist.wait_path[i] = hist.wait_path[i + 1]
        \/ <<hist.wait_path[i], hist.wait_path[i + 1]>> \in WaitGtidChanges

\* The packets the client has received in reply to statement i from a
\* backend that was sent the statement with the wait in front of it.
CausalPktsOf(i) ==
    SelectSeq(client.pkts, LAMBDA p : p.id = i /\ p.kind = "read_wait")

\* C15: of the reply to a read with the wait in front of it the client
\* does not get the OK of the wait; the packets of the result reach it in
\* the order of their arrival, numbered 1, 2, 3, ..., whatever the buffers
\* they arrived in, and all of them when the reply is complete.
C15_ResultRenumberedFromOne ==
    \A i \in 1..Len(client.got) :
        LET s == CausalPktsOf(i)
        IN  /\ \A j \in 1..Len(s) : /\ s[j].type = "row"
                                    /\ s[j].no = j + 1
                                    /\ s[j].seq = j
            /\ Len(s) <= MaxPkts
            /\ Len(s) = MaxPkts <=> (s # <<>> /\ client.got[i] = 1)

C15_Witness ==
    \E i \in 1..Len(client.got) :
        /\ Len(CausalPktsOf(i)) = MaxPkts
        /\ client.got[i] = 1
        /\ rses.m_next_seq = MaxPkts + 1

\* The step in which the error of the wait arrives.
WaitFailed ==
    /\ rses.m_wait_gtid = "WAITING_FOR_HEADER"
    /\ \E k \in 1..Len(hist'.wait_path) :
           hist'.wait_path[k] = "RETRYING_ON_MASTER"

\* C16: when the wait ends with an error the client gets nothing of it,
\* the session goes on and the read is set aside to be routed again, with
\* the hint that sends it to the master; a read with that hint is written
\* to the master only, so the result the client gets is the master's.
C16_WaitErrorRetriedOnMaster ==
    /\ [][WaitFailed =>
            /\ client' = client
            /\ session'.state = "started"
            /\ \E b \in Backends :
                  /\ backends[b].cmd.kind = "read_wait"
                  /\ delayed' = Append(delayed,
                                       [id |-> backends[b].cmd.id,
                                        kind |-> "read_master",
                                        replayed |-> TRUE])]_vars
    /\ [](\A b \in Backends :
             backends[b].cmd.kind = "read_master" => role[b] = "master")

\* The ROLLBACK of the router is with a slave and not answered yet.
RollbackSent ==
    /\ rses.m_otrx_state = "OTRX_ROLLBACK"
    /\ \E b \in Backends : /\ backends[b].cmd.kind = "rollback"
                           /\ role[b] = "slave"

\* A replayed statement of the transaction is with the master.
ReplayOnMaster ==
    /\ rses.m_is_replay_active
    /\ \E b \in Backends : /\ role[b] = "master"
                           /\ backends[b].cmd.replayed

\* The reply to the ROLLBACK is complete in this step.
RollbackReplyCompletes ==
    \E b \in Backends : /\ backends[b].cmd.kind = "rollback"
                        /\ backends'[b].in_use
                        /\ backends'[b].cmd = NoStmt

\* C17: once the ROLLBACK of an optimistic transaction is with the slave,
\* the transaction is eventually replayed on the master; the replay starts
\* only in the step in which the reply to the ROLLBACK is complete; and
\* the client is never sent the reply to the ROLLBACK.
C17_RollbackThenReplayOnMaster ==
    /\ RollbackSent ~> ReplayOnMaster
    /\ [][RollbackSent /\ rses'.m_is_replay_active
             => RollbackReplyCompletes]_vars
    /\ [](~hist.rollback_forwarded)

\* The connection of backend b, which is not the master, fails in this step
\* while b is to answer a read and nothing of the reply has arrived.
ReadFailsOn(b) ==
    /\ session.state = "started"
    /\ b # rses.m_current_master
    /\ backends[b].in_use
    /\ backends[b].cmd.kind = "read"
    /\ ~backends[b].started
    /\ hist'.nfail = hist.nfail + 1
    /\ backends'[b].cmd = NoStmt

\* The read that was set aside is routed in this step.
RetriedReadRouted ==
    /\ session.state = "started"
    /\ delayed # <<>>
    /\ Head(delayed).kind = "read"
    /\ delayed' = Tail(delayed)
    /\ hist'.nfail = hist.nfail
    /\ client'.sent = client.sent
    /\ session'.state # "stopped"

\* The backend that can take the read that was set aside: a slave in use or
\* the master, and the master alone once the client has opened a
\* transaction.
RetryTarget ==
    IF is_master_stmt(World, Head(delayed))
    THEN master_target(World)
    ELSE slave_target(World)

MasterLostAwaiting ==
    /\ rses.m_current_master # NoBackend
    /\ backends[rses.m_current_master].cmd # NoStmt
    /\ ~backends[rses.m_current_master].started
    /\ MasterFails

SlaveConnections ==
    {b \in Backends : /\ backends[b].in_use
                      /\ role[b] = "slave"
                      /\ b # rses.m_current_master}

\* C20: the session never has more slave connections open than
\* max_slave_connections.
C20_SlaveConnectionsBounded ==
    Cardinality(SlaveConnections) <= m_config.max_slave_connections

\* A slave connection has failed, a read has been routed since, and the
\* session has as many slave connections as it may have while a slave is
\* left that it does not use.
C20_Witness ==
    /\ hist.nfail > 0
    /\ Cardinality(SlaveConnections) = m_config.max_slave_connections
    /\ \E b \in Backends : role[b] = "slave" /\ ~backends[b].in_use
    /\ \E b \in SlaveConnections : backends[b].cmd.kind = "read"

\* The master of the session is in use.
MasterInUse ==
    /\ rses.m_current_master # NoBackend
    /\ backends[rses.m_current_master].in_use

\* The best (lowest) rank among the backends of S.
BestRank(S) == CHOOSE r \in {rank(b) : b \in S} : \A b \in S : r <= rank(b)

\* The backends that can be connected to.
Available == {b \in Backends : can_connect(b)}

\* The backends the current rank is taken from when no master is in use:
\* those in use if there are any, and of these the ones that can be
\* connected to if there are any.
RankGivers ==
    LET used == {b \in Backends : backends[b].in_use}
        U == IF used # {} THEN used ELSE Backends
    IN  IF U \cap Available # {} THEN U \cap Available ELSE U

\* C21, as the claim states it: the candidates for a read have the rank of
\* the master in use or, with no master in use, the best rank among the
\* backends that are available.
C21_CandidatesOfBestAvailableRank ==
    session.state = "started" =>
        \A b \in slave_candidates(World) :
            rank(b) = IF MasterInUse THEN rank(rses.m_current_master)
                      ELSE BestRank(IF Available # {} THEN Available
                                    ELSE Backends)

\* C21, amended: with no master in use the current rank is the best rank
\* among the backends in use that can be connected to, and the best rank
\* among the available backends only when no backend is in use.
C21_CandidatesOfCurrentRank ==
    session.state = "started" =>
        \A b \in slave_candidates(World) :
            rank(b) = IF MasterInUse THEN rank(rses.m_current_master)
                      ELSE BestRank(RankGivers)

\* No master is in use, a slave of rank 2 is, and it is a candidate while a
\* server of rank 1 is available.
C21_Witness ==
    /\ session.state = "started"
    /\ ~MasterInUse
    /\ \E b \in slave_candidates(World) : rank(b) = 2 /\ backends[b].in_use
    /\ \E c \in Available : rank(c) = 1 /\ ~backends[c].in_use

\* C30: while the session runs, a statement is in the query queue only
\* when something is pending that leads to its routing: a reply is
\* outstanding, a transaction replay is active, or a statement that is
\* routed again waits in a delayed routing call.
C30_QueuedStatementHasTrigger ==
    session.state = "started" /\ rses.m_query_queue # <<>>
        => \/ rses.m_expected_responses > 0
           \/ rses.m_is_replay_active
           \/ delayed # <<>>

\* ============================================================ the core
\* The router session's variables while no session has been started for
\* the client connection.
NoRouterSession ==
    /\ m_config = CHOOSE c \in Configs : TRUE
    /\ role = [b \in Servers |-> IF b = "A" THEN "master" ELSE "slave"]
    /\ rses = FreedSession
    /\ backends = [b \in Backends |->
                      [in_use |-> FALSE, cmd |-> NoStmt, started |-> FALSE,
                       sent |-> 0]]
    /\ session = [state |-> "created", trx_active |-> FALSE,
                  trx_ending |-> FALSE]
    /\ client = [sent |-> 0, got |-> [i \in 1..MaxStmts |-> 0],
                 errors |-> {}, auth_switch |-> FALSE, pkts |-> <<>>]
    /\ delayed = <<>>
    /\ proto = [changing_user |-> FALSE, stored_query |-> NoStmt,
                command |-> "COM_QUERY", data_changing_user |-> FALSE,
                changed_user |-> FALSE, data_user |-> FirstUser,
                data_db |-> FirstUser]
    /\ hist = NoHist

router_vars == <<m_config, role, rses, backends, session, client, delayed,
                 proto, hist>>

\* --------------------------------------------- the advertised version
\* Service::Service(): m_version_string(get_version_string(params)).
InitVersion ==
    /\ NoRouterSession
    /\ \E v \in VersionParams :
           service = [NoService EXCEPT
                         !.version_string = v,
                         !.m_version_string = Service_get_version_string(v)]
    /\ server = [b \in Servers |-> NewServer]
    /\ dcb = NoDcb
    /\ runtime = NoAlter
    /\ now = maxscale_started
    /\ InitExt

\* Service::update_basic_parameter(): version_string is altered at runtime.
AlterVersionString(value) ==
    /\ service' = [service EXCEPT !.version_string = value,
                                  !.m_version_string = value]
    /\ UNCHANGED <<router_vars, ext_vars, now, server, dcb, runtime>>

\* The monitor learns the version of a server.
SetServerVersion(b, v) ==
    /\ server' = [server EXCEPT ![b].version = v]
    /\ UNCHANGED <<router_vars, ext_vars, now, service, dcb, runtime>>

\* send_mysql_client_handshake(): a client has connected and is sent the
\* handshake with the version string.
SendHandshake ==
    /\ dcb' = send_mysql_client_handshake(
                  [dcb EXCEPT !.auth = [NewAuth EXCEPT !.open = TRUE]])
    /\ UNCHANGED <<router_vars, ext_vars, now, service, server, runtime>>

NextVersion ==
    \/ \E value \in VersionParams \ {NoVersion} : AlterVersionString(value)
    \/ \E b \in Servers, v \in ServerVersions : SetServerVersion(b, v)
    \/ SendHandshake

SpecVersion == InitVersion /\ [][NextVersion]_vars

\* ----------------------------------------------- authentication: events
\* A service with a synchronous or an asynchronous authenticator; the
\* users are loaded when the listener starts.
InitAuth ==
    /\ NoRouterSession
    /\ \E async \in BOOLEAN, g \in SUBSET UserNames :
          /\ service = [NoService EXCEPT !.acap_async = async, !.users = g]
          /\ server = [b \in Servers |->
                          IF b = "A" THEN [NewServer EXCEPT !.grants = g]
                          ELSE NewServer]
    /\ dcb = NoDcb
    /\ runtime = NoAlter
    /\ now = maxscale_started
    /\ InitExt

\* The server the listener loads the users from.
UserServer == "A"

\* A client connects: a worker accepts the connection and makes the DCB
\* with its protocol session.
Accept(w) ==
    /\ ~dcb.auth.open
    /\ dcb' = [NoDcb EXCEPT !.auth = [NewAuth EXCEPT !.open = TRUE,
                                                    !.worker = w]]
    /\ UNCHANGED <<router_vars, ext_vars, now, service, server, runtime>>

\* mariadbclient_init_connection()
InitConnection ==
    /\ dcb.auth.open
    /\ dcb.auth.protocol_auth_state = "INIT"
    /\ dcb' = send_mysql_client_handshake(dcb)
    /\ UNCHANGED <<router_vars, ext_vars, now, service, server, runtime>>

\* mariadbclient_read(): a packet of the client arrives.
ClientPacket(pkt, load, session_ok) ==
    /\ dcb.auth.open
    /\ LET r == mariadbclient_read(service, dcb.auth, pkt, now,
                                   server[UserServer].grants, load,
                                   session_ok)
       IN  /\ service' = r.svc
           /\ dcb' = [dcb EXCEPT !.auth = r.a]
    /\ UNCHANGED <<router_vars, ext_vars, now, server, runtime>>

\* mariadbclient_hangup(): the client closes the connection.
ClientCloses ==
    /\ dcb.auth.open
    /\ dcb' = NoDcb
    /\ UNCHANGED <<router_vars, ext_vars, now, service, server, runtime>>

\* A user is created or dropped on the server.
GrantsChange(u) ==
    /\ server' = [server EXCEPT ![UserServer].grants =
                     IF u \in @ THEN @ \ {u} ELSE @ \cup {u}]
    /\ UNCHANGED <<router_vars, ext_vars, now, service, dcb, runtime>>

\* A second passes.
Tick ==
    /\ now < MaxTime
    /\ now' = now + 1
    /\ UNCHANGED <<router_vars, ext_vars, service, server, dcb, runtime>>

NextAuth ==
    \/ \E w \in Workers : Accept(w)
    \/ InitConnection
    \/ \E pkt \in AuthPackets,
          load \in {"MXS_AUTH_LOADUSERS_OK", "MXS_AUTH_LOADUSERS_ERROR"},
          session_ok \in BOOLEAN : ClientPacket(pkt, load, session_ok)
    \/ ClientCloses
    \/ \E u \in UserNames : GrantsChange(u)
    \/ Tick

SpecAuth == InitAuth /\ [][NextAuth]_vars

\* ------------------------------------------- runtime alteration: events
\* A router with and one without RCAP_TYPE_RUNTIME_CONFIG.
InitAlter ==
    /\ NoRouterSession
    /\ \E c \in BOOLEAN : service = [NoService EXCEPT !.runtime_config = c]
    /\ server = [b \in Servers |-> NewServer]
    /\ dcb = NoDcb
    /\ runtime = NoAlter
    /\ now = maxscale_started
    /\ InitExt

AlterDone(fn, key, value, r, changed) ==
    [fn |-> fn, key |-> key, value |-> value, rval |-> r.rval,
     errors |-> r.errors, changed |-> changed]

\* The server that is altered.
AlteredServer == "A"

AlterServer(key, value) ==
    LET r == runtime_alter_server(server[AlteredServer], key, value)
    IN  /\ server' = [server EXCEPT ![AlteredServer] = r.obj]
        /\ runtime' = AlterDone("runtime_alter_server", key, value, r,
                                r.obj # server[AlteredServer])
        /\ UNCHANGED <<router_vars, ext_vars, now, service, dcb>>

AlterService(key, value, configured) ==
    LET r == runtime_alter_service(service, key, value, configured)
    IN  /\ service' = r.obj
        /\ runtime' = AlterDone("runtime_alter_service", key, value, r,
                                r.obj # service)
        /\ UNCHANGED <<router_vars, ext_vars, now, server, dcb>>

AlterServiceFromJson(key, value, configured) ==
    LET r == runtime_alter_service_from_json(service, key, value, configured)
    IN  /\ service' = r.obj
        /\ runtime' = AlterDone("runtime_alter_service_from_json", key, value,
                                r, r.obj # service)
        /\ UNCHANGED <<router_vars, ext_vars, now, server, dcb>>

NextAlter ==
    \/ \E key \in ServerParams, value \in ParamValues : AlterServer(key, value)
    \/ \E key \in ServiceParams \cup UnknownParams, value \in ParamValues,
          configured \in BOOLEAN : AlterService(key, value, configured)
    \/ \E key \in ServiceParams \cup UnknownParams, value \in ParamValues,
          configured \in BOOLEAN : AlterServiceFromJson(key, value, configured)

SpecAlter == InitAlter /\ [][NextAlter]_vars

\* A step of protocol_auth_state the claim allows.
AuthStateStep(x, y) ==
    \/ <<x, y>> \in {<<"INIT", "MESSAGE_READ">>,
                     <<"MESSAGE_READ", "RESPONSE_SENT">>,
                     <<"RESPONSE_SENT", "COMPLETE">>}
    \/ x # "FAILED" /\ y = "FAILED"

\* C22: the authentication state of a client connection starts in Init and
\* changes only by a step Init -> MessageRead -> ResponseSent -> Complete
\* or by a step to Failed; it is Complete only when the validation has
\* succeeded and the session has been started; and a packet of the client
\* is routed only when it is Complete.
C22_AuthStateForward ==
    LET a == dcb.auth
    IN  /\ a.path[1] = "INIT"
        /\ a.path[Len(a.path)] = a.protocol_auth_state
        /\ \A i \in 1..(Len(a.path) - 1) : AuthStateStep(a.path[i], a.path[i + 1])
        /\ a.protocol_auth_state = "COMPLETE" =>
              /\ a.auth_val = "MXS_AUTH_SUCCEEDED"
              /\ a.validation.rc = "MXS_AUTH_SUCCEEDED"
              /\ a.session_started
        /\ a.routed => a.protocol_auth_state = "COMPLETE"

C22_Witness ==
    /\ dcb.auth.path = <<"INIT", "MESSAGE_READ", "RESPONSE_SENT", "COMPLETE">>
    /\ dcb.auth.routed

\* The packet handled last was a handshake response that names a user
\* and a plugin other than the default one.
OtherPluginResponse ==
    /\ dcb.auth.last_pkt > MYSQL_AUTH_PACKET_BASE_SIZE
    /\ ~dcb.auth.switch_pending
    /\ dcb.auth.user # ""
    /\ ~dcb.auth.correct_authenticator

FirstValidationFailed == dcb.auth.validation.first = "MXS_AUTH_FAILED"
LastRefresh == dcb.auth.validation.refresh
FailureReported ==
    /\ dcb.auth.err_sent > 0
    /\ dcb.auth.auth_val = "MXS_AUTH_FAILED"
    /\ dcb.auth.protocol_auth_state = "FAILED"

C24_OneReloadPerInterval ==
    LastRefresh.loaded /\ LastRefresh.prev >= 0 =>
        LastRefresh.at - LastRefresh.prev >= users_refresh_time

\* C24: a reload later than users_refresh_time after the start of MaxScale
\* is at least users_refresh_time after the reload before it in the same
\* slot of m_rate_limits (the slot of the worker, or the one slot of a
\* synchronous authenticator); until then every call reloads.
C24_OneReloadPerIntervalAfterStartup ==
    /\ LastRefresh.loaded /\ LastRefresh.prev >= 0 =>
          \/ LastRefresh.at - LastRefresh.prev >= users_refresh_time
          \/ LastRefresh.at <= maxscale_started + users_refresh_time
    /\ LastRefresh.called
       /\ LastRefresh.at <= maxscale_started + users_refresh_time
          => LastRefresh.loaded

C24_Witness ==
    /\ LastRefresh.loaded
    /\ LastRefresh.prev >= 0
    /\ LastRefresh.at > maxscale_started + users_refresh_time

\* C25: a call of service_refresh_users() that exceeds the rate limit
\* returns 1 and loads no users.
C25_RateLimitedRefreshFails ==
    LastRefresh.called /\ LastRefresh.limited =>
        /\ LastRefresh.ret = 1
        /\ ~LastRefresh.loaded

\* The last alteration was one of a parameter the object knows but that
\* is not modifiable at runtime, with a value of the parameter's type.
StaticParamAltered ==
    /\ runtime.fn # "none"
    /\ runtime.value # ""
    /\ \/ /\ runtime.fn = "runtime_alter_server"
          /\ runtime.key \in ServerStaticParams
       \/ /\ runtime.fn # "runtime_alter_server"
          /\ runtime.key \in ServiceStaticParams

\* C29: the alteration of a parameter that is known but not modifiable at
\* runtime fails with an error, and the configuration of the object, in
\* memory and persisted, is as it was.
C29_StaticParamRejected ==
    StaticParamAltered =>
        /\ ~runtime.rval
        /\ runtime.errors > 0
        /\ ~runtime.changed

\* runtime_alter_server() and runtime_alter_service_from_json() reject
\* such an alteration.
StaticParamRejectedByServerAndJson ==
    StaticParamAltered /\ runtime.fn # "runtime_alter_service" =>
        /\ ~runtime.rval
        /\ runtime.errors > 0
        /\ ~runtime.changed

\* ------------------------------------------------------- KILL queries
\* The statements the client sends: every statement of the grammar
\*   KILL [HARD|SOFT] [CONNECTION|QUERY] {<id> | USER <name>} [;]
\* over two ids and two user names, written with single spaces, and a few
\* statements that are not of the grammar.
KillIds == {<<"7">>, <<"4", "2">>}
KillUsers == {<<"b", "o", "b">>, <<"a", "p", "p", "l", "i", "c", "a", "t", "i", "o", "n", "_", "d", "b">>}
KillInputs ==
    [hs : {<<>>, WORD_HARD, WORD_SOFT},
     cq : {<<>>, WORD_CONNECTION, WORD_QUERY},
     user : BOOLEAN,
     target : KillIds \cup KillUsers,
     semi : {"none", "attached", "separate"}]
KillForm == {q \in KillInputs : q.user <=> q.target \in KillUsers}

Space(word) == IF word = <<>> THEN <<>> ELSE <<" ">> \o word
\* The text of a statement of the grammar.
KillText(q) ==
    WORD_KILL \o Space(q.hs) \o Space(q.cq)
        \o (IF q.user THEN Space(WORD_USER) ELSE <<>>) \o Space(q.target)
        \o (CASE q.semi = "none" -> <<>>
              [] q.semi = "attached" -> <<";">>
              [] q.semi = "separate" -> <<" ", ";">>)

OtherQueries ==
    {<<"K", "I", "L", "L">>,
     <<"K", "I", "L", "L", " ", "U", "S", "E", "R">>,
     <<"K", "I", "L", "L", " ", "0">>,
     <<"K", "I", "L", "L", " ", "0", "8">>,
     <<"K", "I", "L", "L", " ", "0", "1", "0">>,
     <<"S", "E", "L", "E", "C", "T", " ", "1">>,
     <<" ", "K", "I", "L", "L", " ", "7">>,
     <<"k", "i", "l", "l", " ", "7">>,
     <<"K", "I", "L", "L", "E", "R", " ", "7">>,
     <<"K", "I", "L", "L", " ", "H", "A", "R", "D", " ", "S", "O", "F", "T", " ", "7">>,
     <<"K", "I", "L", "L", " ", "7", " ", "8">>,
     <<"K", "I", "L", "L", " ", "Q", "U", "E", "R", "Y", " ", "H", "A", "R", "D", " ", "7">>,
     <<"K", "I", "L", "L", " ", "u", "s", "e", "r", " ", "b", "o", "b", ";", "x">>,
     <<"K", "I", "L", "L", " ", "U", "S", "E", "R", " ", ";">>,
     <<"K", "I", "L", "L", " ", "7", " ", ";", "x">>}

InitKill ==
    /\ NoRouterSession
    /\ service = NoService
    /\ server = [b \in Servers |-> NewServer]
    /\ dcb = NoDcb
    /\ runtime = NoAlter
    /\ now = maxscale_started
    /\ InitExt

\* route_by_statement() for one COM_QUERY packet: a statement that
\* process_special_commands() has handled is freed, every other goes on to
\* do_routeQuery().
special_or_route(query, input, form) ==
    LET k == process_special_commands(query)
    IN  [k EXCEPT !.form = form, !.input = input,
                  !.routed = (k.rval # "RES_END")]

KillQuery(q) ==
    /\ dcb' = [dcb EXCEPT !.kill = special_or_route(KillText(q), q, TRUE)]
    /\ UNCHANGED <<router_vars, ext_vars, now, service, server, runtime>>

OtherQuery(text) ==
    /\ dcb' = [dcb EXCEPT !.kill = special_or_route(text, text, FALSE)]
    /\ UNCHANGED <<router_vars, ext_vars, now, service, server, runtime>>

NextKill ==
    \/ \E q \in KillForm : KillQuery(q)
    \/ \E text \in OtherQueries : OtherQuery(text)

SpecKill == InitKill /\ [][NextKill]_vars

\* The kill a statement of the grammar asks for.
KillKindOf(q) ==
    (IF q.cq = WORD_QUERY THEN {"KT_QUERY"} ELSE {"KT_CONNECTION"})
        \cup (IF q.hs = WORD_HARD THEN {"KT_HARD"} ELSE {})
        \cup (IF q.hs = WORD_SOFT THEN {"KT_SOFT"} ELSE {})
KillTargetOf(q) ==
    IF q.user THEN q.target ELSE IF q.target = <<"7">> THEN 7 ELSE 42

\* C27: a statement of the form KILL [HARD|SOFT] [CONNECTION|QUERY]
\* {<id> | USER <name>} is handled by the protocol: one kill is dispatched
\* with the target and the kind of the statement, one OK is sent to the
\* client and the statement is not routed.
C27_KillRecognised ==
    dcb.kill.form =>
        /\ dcb.kill.rval = "RES_END"
        /\ Len(dcb.kill.executed) = 1
        /\ dcb.kill.executed[1].target = KillTargetOf(dcb.kill.input)
        /\ dcb.kill.executed[1].type = KillKindOf(dcb.kill.input)
        /\ dcb.kill.ok_sent = 1
        /\ ~dcb.kill.routed

\* A statement of the grammar of at most LONGEST_KILL characters is
\* handled so.
ShortKillRecognised ==
    dcb.kill.form /\ Len(KillText(dcb.kill.input)) <= LONGEST_KILL =>
        /\ dcb.kill.rval = "RES_END"
        /\ Len(dcb.kill.executed) = 1
        /\ dcb.kill.executed[1].target = KillTargetOf(dcb.kill.input)
        /\ dcb.kill.executed[1].type = KillKindOf(dcb.kill.input)
        /\ dcb.kill.ok_sent = 1
        /\ ~dcb.kill.routed

\* The version a handshake advertises, as it is configured or as the
\* server reports it: the configured version_string of the service before
\* any prefix, else what get_version_string() has picked.
StartsWith10(v) == Len(v) >= 3 /\ SubSeq(v, 1, 3) = <<"1", "0", ".">>
AdvertisedVersionOf(hs) ==
    IF hs.param # NoVersion THEN hs.param ELSE hs.rval

MaxIgnorable == 1

\* handle_ignorable_error() that counts the reply as received whether or
\* not the error can be ignored.
handle_ignorable_error_always(w, b) ==
    [w EXCEPT !.b[b] = Backend_ack_write(@),
              !.r.m_expected_responses = @ - 1,
              !.rv = FALSE]

\* RWSplitSession::handle_ignorable_error(): the reply of backend b is a
\* rollback of the server (a deadlock) or the WSREP error of a node that
\* is not ready.  In a transaction the transaction is replayed; outside of
\* one the statement is routed again.  m_current_query.release() of line
\* 576 is used without a test: routing a null buffer ends the process and
\* the session with it.  rv says whether the error is ignored.
handle_ignorable_error(w, b) ==
    LET w1 == IF session_trx_is_active(w)
              THEN start_trx_replay(w)
              ELSE IF b = w.r.m_current_master
              THEN IF can_retry_query(w)
                   THEN retry_master_query(w)
                   ELSE [w EXCEPT !.rv = FALSE]
              ELSE IF m_config.retry_failed_reads
              THEN IF w.r.m_current_query = NoStmt
                   THEN [session_close(w) EXCEPT !.rv = TRUE]
                   ELSE [retry_query([w EXCEPT !.r.m_current_query = NoStmt],
                                     w.r.m_current_query)
                            EXCEPT !.rv = TRUE]
              ELSE [w EXCEPT !.rv = FALSE]
    IN  IF w1.rv /\ w1.s.state # "stopped"
        THEN [w1 EXCEPT !.b[b] = Backend_ack_write(@),
                        !.r.m_expected_responses = @ - 1]
        ELSE w1

\* clientReply(), lines 590-685, for a reply that is one error packet with
\* an error that can be ignored: it is dropped when
\* handle_ignorable_error() says so, and is the complete reply to the
\* statement when not.
reply_ignorable(w, b) ==
    LET w1 == handle_ignorable_error(w, b)
    IN  IF w1.rv
        THEN w1
        ELSE reply_managed(
                 manage_transactions([w1 EXCEPT !.rv = TRUE], b, <<0>>), b,
                 w.b[b].cmd, has_session_commands(w, b), TRUE)

\* The reply of backend b is an error that can be ignored; it is the first
\* packet of the reply.  causal_reads is off.
IgnorableError(b) ==
    /\ session.state = "started"
    /\ ~m_config.causal_reads
    /\ backends[b].in_use
    /\ backends[b].cmd # NoStmt
    /\ ~backends[b].started
    /\ can_connect(b)
    /\ backends[b].cmd.kind # "rollback"
    /\ hist.ignored < MaxIgnorable
    /\ Apply(reply_ignorable([World EXCEPT !.h.ignored = @ + 1], b))
    /\ UNCHANGED <<m_config, role, core_vars>>

NextIgnorable ==
    \/ Next
    \/ \E b \in Backends : IgnorableError(b)

SpecIgnorable == Init /\ [][NextIgnorable]_vars

\* C31: the expected-response count of a session is never negative,
\* whatever statements are routed, replies completed, errors ignored and
\* connections lost.
C31_ExpectedResponsesNotNegative == rses.m_expected_responses >= 0

\* The reply to the first statement was an error that has been ignored:
\* no connection has failed, the client has got nothing, the count has
\* gone down to 0 and the statement is set aside to be routed again.
C31_Witness ==
    /\ rses.m_expected_responses = 0
    /\ delayed # <<>>
    /\ hist.ignored > 0
    /\ hist.nfail = 0
    /\ client.sent = 1
    /\ client.got[1] = 0
    /\ client.errors = {}
    /\ session.state = "started"

\* The replay of a transaction has failed on a mismatch of the checksums
\* and the session is not closed yet: error 1927 is sent by nothing else
\* before the connection is closed.
ReplayHasFailed ==
    /\ session.state = "stopping"
    /\ ER_TRX_REPLAY \in client.errors

\* routeQuery() with statement q only adds q to the end of the queue.
OnlyQueued(q) ==
    LET w == routeQuery(World, q)
    IN  /\ w.rv
        /\ w.r = [rses EXCEPT !.m_query_queue = Append(@, q)]
        /\ w.b = backends
        /\ w.d = delayed
        /\ w.c = client

\* C32: after the replay of a transaction has failed on a mismatch of the
\* checksums, routeQuery() only queues the statements of the client, and no
\* step before the close of the session writes to a backend or sets a
\* statement aside for routing.
C32_QueuedAfterReplayFailure ==
    /\ [](ReplayHasFailed
            => \A kind \in StmtKinds :
                   OnlyQueued([id |-> client.sent + 1, kind |-> kind,
                               replayed |-> FALSE]))
    /\ [][ReplayHasFailed
             => /\ \A b \in Backends :
                       backends'[b].cmd \in {backends[b].cmd, NoStmt}
                /\ delayed' \in {delayed, <<>>}]_vars

\* C32 witness: the replay has failed while nothing is outstanding and the
\* queue is empty, which is when routeQuery() would write a statement to a
\* backend if no replay were active.
C32_Witness ==
    /\ ReplayHasFailed
    /\ rses.m_is_replay_active
    /\ rses.m_trx.chk # rses.m_replayed_trx.chk
    /\ rses.m_expected_responses = 0
    /\ rses.m_query_queue = <<>>
    /\ client.sent < MaxStmts

\* The connection of a backend fails after a part of its reply has
\* arrived.
LostInResult == \E b \in Backends : backends[b].started /\ BackendFail(b)

\* C33: when a backend is lost after a part of its reply has arrived the
\* session is terminated at once, nothing is retried or replayed, and the
\* client is sent no error packet, neither in that step nor afterwards.
C33_TerminatedWithoutError ==
    /\ [][LostInResult
             => /\ session'.state = "stopping"
                /\ rses' = rses
                /\ delayed' = delayed]_vars
    /\ [][hist'.lost_in_result => client'.errors = client.errors]_vars

\* What handleError() itself does when a backend is lost after a part of
\* its reply has arrived: the session is stopping, nothing is retried or
\* replayed, and the handler sends nothing to the client.
LostInResultTerminates ==
    [][LostInResult
         => /\ session'.state = "stopping"
            /\ rses' = rses
            /\ delayed' = delayed
            /\ backends' = backends
            /\ client' = client]_vars

\* A buffer of a reply arrives while a transaction is replayed of which the
\* client has results.
ReplayedReplyArrives ==
    /\ rses.m_is_replay_active
    /\ ~Trx_empty(rses.m_replayed_trx)
    /\ \E b \in Backends, byte \in Bytes, complete \in BOOLEAN :
           BackendReply(b, byte, complete)

\* C34: while a transaction is replayed whose results the client has, the
\* replies to the replayed statements are not forwarded to the client, and
\* the client gets the complete reply to no statement twice.
C34_ReplayedRepliesDiscarded ==
    [][ReplayedReplyArrives
         => client'.got = client.got /\ client'.pkts = client.pkts]_vars

\* The client gets the complete reply to no statement twice.
NoReplyTwice == \A i \in 1..MaxStmts : client.got[i] <= 1

\* C34 witness: the replay of a transaction is over, its replies have
\* arrived, and the client has the reply to its first statement once.
C34_Witness ==
    /\ session.state = "started"
    /\ hist.nfail > 0
    /\ ~rses.m_is_replay_active
    /\ rses.m_replayed_trx.chk # <<>>
    /\ rses.m_replayed_trx.log = <<>>
    /\ client.got[1] = 1

\* ------------------------------------------------------------------ C35
Range(seq) == {seq[i] : i \in DOMAIN seq}

\* The queue is first in, first out: a step takes statements from the front
\* only, leaves the others in their order and puts none of those it took
\* behind them.
FrontTaken(old, new) ==
    \E k \in 0..Len(old) :
        /\ Len(new) >= Len(old) - k
        /\ SubSeq(new, 1, Len(old) - k) = SubSeq(old, k + 1, Len(old))
        /\ \A i \in 1..k : old[i] \notin Range(new)

\* No statement of the client is on a backend, waits for a delayed routing
\* or has been answered while a statement that the client sent before it
\* waits in the queue for its first routing.
NotOvertaken ==
    \A i \in DOMAIN rses.m_query_queue :
        LET e == rses.m_query_queue[i]
        IN  ~e.replayed =>
            /\ \A b \in Backends : backends[b].cmd.id <= e.id
            /\ \A k \in DOMAIN delayed : delayed[k].id <= e.id
            /\ \A n \in DOMAIN client.got : n > e.id => client.got[n] = 0

\* The statement that route_stored_query() queued again is the first of
\* the queue, the statements that waited with it follow.
RequeuedAtFront ==
    hist'.requeued =>
        \E k \in 1..Len(rses.m_query_queue) :
            rses'.m_query_queue =
                SubSeq(rses.m_query_queue, k, Len(rses.m_query_queue))

\* The statements of the queue that have not been routed before.  Those
\* that are routed again (GWBUF_TYPE_REPLAYED) are erased from the queue,
\* wherever they are, when a replay starts over (start_trx_replay()).
IsClientStmt(q) == ~q.replayed

ClientQueue(queue) == SelectSeq(queue, IsClientStmt)

QueueFifo ==
    [][FrontTaken(ClientQueue(rses.m_query_queue),
                  ClientQueue(rses'.m_query_queue))]_vars

InitMonitor ==
    /\ NoRouterSession
    /\ service = NoService
    /\ server = [b \in Servers |-> NewServer]
    /\ dcb = NoDcb
    /\ runtime = NoAlter
    /\ now = maxscale_started
    /\ \E r \in BOOLEAN : mon = [NoManualCmd EXCEPT !.running = r]
    /\ objects = NoObjects
    /\ hintses = NoHintSession

\* execute_manual_command(), lines 695-704: the monitor is not running, or
\* a command waits for its execution, and the call returns at once; else it
\* goes on.  Both are read without the mutex.
execute_manual_command(m, s) ==
    LET c == m.calls + 1
    IN  IF ~m.running
        THEN [m EXCEPT !.calls = c, !.result[c] = "not_running"]
        ELSE IF m.command_waiting_exec
        THEN [m EXCEPT !.calls = c, !.result[c] = "rejected"]
        ELSE [m EXCEPT !.calls = c, !.cmd[s] = c, !.pc[s] = "write"]

\* lines 710-714: the command is written with the mutex held.
write_command(m, s) ==
    [m EXCEPT !.method = m.cmd[s], !.command_waiting_exec = TRUE,
              !.pc[s] = "notify"]

\* lines 718-723: has_result.wait(lock, pred) and the return of the call.
\* With the result there the call takes it and returns true; else the
\* thread releases the mutex and blocks on has_result.
wait_result(m, s) ==
    IF m.result_waiting
    THEN [m EXCEPT !.result_waiting = FALSE,
                   !.result[m.cmd[s]] = "true",
                   !.cmd[s] = NoCmd, !.pc[s] = "idle"]
    ELSE [m EXCEPT !.has_result = @ \cup {s}, !.pc[s] = "blocked"]

\* process_state_changes(), lines 533-537: the command runs on the monitor
\* thread, which holds the mutex.
run_command(m) ==
    [m EXCEPT !.execs[m.method] = @ + 1,
              !.command_waiting_exec = FALSE, !.result_waiting = TRUE,
              !.mutex = "free", !.tick = "notify"]

MonUnchanged ==
    UNCHANGED <<router_vars, service, server, dcb, runtime, now, objects,
                hintses>>

\* A thread calls execute_manual_command() with a new command.
Call(s) ==
    /\ mon.pc[s] = "idle"
    /\ mon.calls < MaxCmds
    /\ mon' = execute_manual_command(mon, s)
    /\ MonUnchanged

WriteCommand(s) ==
    /\ mon.pc[s] = "write"
    /\ mon.mutex = "free"
    /\ mon' = write_command(mon, s)
    /\ MonUnchanged

\* line 715: has_command.notify_one().  The monitor thread never blocks on
\* has_command: it waits with the mutex held and the predicate true.
NotifyCommand(s) ==
    /\ mon.pc[s] = "notify"
    /\ mon' = [mon EXCEPT !.pc[s] = "wait"]
    /\ MonUnchanged

WaitResult(s) ==
    /\ mon.pc[s] = "wait"
    /\ mon.mutex = "free"
    /\ mon' = wait_result(mon, s)
    /\ MonUnchanged

\* A wait on a condition variable may end without a notification.
SpuriousWakeup(s) ==
    /\ mon.pc[s] = "blocked"
    /\ mon' = [mon EXCEPT !.has_result = @ \ {s}, !.pc[s] = "wait"]
    /\ MonUnchanged

\* process_state_changes(), lines 523-532, of a tick (the monitor runs and
\* immediate_tick_required() brings the tick on): a command waits, the
\* mutex is taken and the command is still there.
TickBegin ==
    /\ mon.running
    /\ mon.tick = "idle"
    /\ mon.command_waiting_exec
    /\ mon.mutex = "free"
    /\ mon' = [mon EXCEPT !.mutex = "monitor", !.tick = "run"]
    /\ MonUnchanged

RunCommand ==
    /\ mon.tick = "run"
    /\ mon' = run_command(mon)
    /\ MonUnchanged

\* line 538: has_result.notify_one() wakes one of the threads that wait.
NotifyResult ==
    /\ mon.tick = "notify"
    /\ \/ /\ mon.has_result = {}
          /\ mon' = [mon EXCEPT !.tick = "idle"]
       \/ \E s \in mon.has_result :
              mon' = [mon EXCEPT !.has_result = @ \ {s}, !.pc[s] = "wait",
                                 !.tick = "idle"]
    /\ MonUnchanged

NextMonitor ==
    \/ \E s \in Submitters : Call(s)
    \/ \E s \in Submitters : WriteCommand(s)
    \/ \E s \in Submitters : NotifyCommand(s)
    \/ \E s \in Submitters : WaitResult(s)
    \/ \E s \in Submitters : SpuriousWakeup(s)
    \/ TickBegin
    \/ RunCommand
    \/ NotifyResult

SpecMonitor == InitMonitor /\ [][NextMonitor]_vars

\* The monitor keeps ticking and every thread that can go on does.
SpecMonitorLive ==
    /\ InitMonitor
    /\ [][NextMonitor]_vars
    /\ WF_vars(TickBegin) /\ WF_vars(RunCommand) /\ WF_vars(NotifyResult)
    /\ \A s \in Submitters :
           WF_vars(WriteCommand(s)) /\ WF_vars(NotifyCommand(s))
           /\ WF_vars(WaitResult(s))

\* ------------------------------------------------------------------ C36
\* C36: a command whose call returned true has been executed exactly once
\* when the call returns and is not executed again; a command that was
\* rejected is never executed; no command is executed twice.
C36_ExecutedOnceBeforeReturn ==
    \A c \in 1..MaxCmds :
        /\ mon.result[c] = "true" => mon.execs[c] = 1
        /\ mon.result[c] \in {"rejected", "not_running"} => mon.execs[c] = 0
        /\ mon.execs[c] <= 1

\* ------------------------------------------------------------------ C37
\* C37: every call of execute_manual_command() returns in the end.
C37_EveryCallReturns ==
    \A s \in Submitters : (mon.pc[s] # "idle") ~> (mon.pc[s] = "idle")

\* ------------------------------------------------- the runtime objects
\* The configuration MaxScale was started with: the service uses some of the
\* servers and filters and, or not, the monitor; the monitor has some of the
\* servers.
InitObjects ==
    /\ NoRouterSession
    /\ service = NoService
    /\ server = [b \in Servers |-> NewServer]
    /\ dcb = NoDcb
    /\ runtime = NoAlter
    /\ now = maxscale_started
    /\ mon = NoManualCmd
    /\ \E d \in SUBSET ObjServers, f \in SUBSET ObjFilters, u \in BOOLEAN,
          m \in SUBSET ObjServers :
           objects = [NoObjects EXCEPT !.dbref = d, !.filters = f,
                                       !.m_monitor = u, !.monitored = m]
    /\ hintses = NoHintSession

config_runtime_error(o) == [o EXCEPT !.rval = FALSE, !.error = TRUE]

\* listener_find(), listener_find_by_address(), listener_find_by_socket():
\* the listeners of that name, of that address and port, of that socket.
listener_find(o, name) == {l \in o.listeners : l.name = name}

listener_find_by_address(o, address, port) ==
    {l \in o.listeners : l.address = address /\ l.port = port}

listener_find_by_socket(o, socket) ==
    {l \in o.listeners : l.address = socket}

\* Listener::create(): a listener on the socket, or on the address and port,
\* of the parameters.
Listener_create(name, params) ==
    IF params.socket # <<>>
    THEN [name |-> name, address |-> params.socket, port |-> 0]
    ELSE [name |-> name, address |-> params.address, port |-> params.port]

\* runtime_create_listener(), lines 1031-1042: the parameters of the
\* listener; a parameter that is not set reads as the empty string or 0.
listener_params(addr, port) ==
    IF addr # <<>> /\ addr[1] = "/"
    THEN [socket |-> addr, address |-> <<>>, port |-> 0]
    ELSE [socket |-> <<>>, address |-> addr, port |-> port]

\* runtime_create_listener().  ok: the protocol module was loaded; created:
\* Listener::create() and listener_serialize() succeeded; listens: so did
\* Listener::listen().
runtime_create_listener(o, name, addr, port, ok, created, listens) ==
    LET params == listener_params(addr, port)
        use_socket == addr # <<>> /\ addr[1] = "/"
        old_listener ==
            IF use_socket
            THEN listener_find_by_address(o, params.address, params.port)
            ELSE listener_find_by_socket(o, params.socket)
    IN  IF ~ok
        THEN config_runtime_error(o)
        ELSE IF listener_find(o, name) # {}
        THEN config_runtime_error(o)
        ELSE IF old_listener # {}
        THEN config_runtime_error(o)
        ELSE IF created /\ listens
        THEN [o EXCEPT !.listeners = @ \cup {Listener_create(name, params)},
                       !.rval = TRUE, !.error = FALSE]
        ELSE config_runtime_error(o)

\* runtime_destroy_listener().  unlink: the outcome of removing the
\* persisted file.
runtime_destroy_listener(o, name, unlink) ==
    IF unlink = "EACCES"
    THEN [o EXCEPT !.rval = FALSE, !.error = FALSE]
    ELSE IF listener_find(o, name) = {}
    THEN config_runtime_error(o)
    ELSE [o EXCEPT !.listeners = @ \ listener_find(o, name),
                   !.rval = TRUE, !.error = FALSE]

\* service_server_in_use(): an active reference of a service to the server.
service_server_in_use(o, s) == o.listed /\ s \in o.dbref

\* MonitorManager::server_is_monitored()
server_is_monitored(o, s) == o.monitor_active /\ s \in o.monitored

\* service_filter_in_use(), filter_can_be_destroyed()
service_filter_in_use(o, f) == o.listed /\ f \in o.filters

filter_can_be_destroyed(o, f) == ~service_filter_in_use(o, f)

\* service_uses_monitor()
service_uses_monitor(o) == o.listed /\ o.m_monitor

\* Variant: the filters of the service are not looked at.
service_can_be_destroyed_filters(o) ==
    /\ o.listeners = {}
    /\ o.dbref = {}

\* service_can_be_destroyed(): no listener, no active server reference and
\* no filter.
service_can_be_destroyed(o) ==
    /\ o.listeners = {}
    /\ o.dbref = {}
    /\ o.filters = {}

\* runtime_destroy_server()
runtime_destroy_server(o, s, unlink) ==
    IF service_server_in_use(o, s) \/ server_is_monitored(o, s)
    THEN config_runtime_error(o)
    ELSE IF unlink = "EACCES"
    THEN [o EXCEPT !.rval = FALSE, !.error = FALSE]
    ELSE [o EXCEPT !.server_active[s] = FALSE,
                   !.rval = TRUE, !.error = FALSE]

\* runtime_destroy_filter(), filter_destroy()
runtime_destroy_filter(o, f) ==
    IF filter_can_be_destroyed(o, f)
    THEN [o EXCEPT !.filter_defs = @ \ {f}, !.rval = TRUE, !.error = FALSE]
    ELSE config_runtime_error(o)

\* runtime_destroy_service(), service_destroy(): a service without
\* sessions is freed at once.
runtime_destroy_service(o, sessions) ==
    IF service_can_be_destroyed(o)
    THEN [o EXCEPT !.active = FALSE, !.listed = sessions,
                   !.rval = TRUE, !.error = FALSE]
    ELSE config_runtime_error(o)

\* runtime_destroy_monitor(), MonitorManager::deactivate_monitor()
runtime_destroy_monitor(o, unlink) ==
    IF service_uses_monitor(o)
    THEN config_runtime_error(o)
    ELSE IF unlink = "EACCES"
    THEN [o EXCEPT !.rval = FALSE, !.error = FALSE]
    ELSE [o EXCEPT !.monitor_active = FALSE,
                   !.rval = TRUE, !.error = FALSE]

\* serviceRemoveBackend(): the reference to the server is no longer active.
serviceRemoveBackend(o, s) == [o EXCEPT !.dbref = @ \ {s}]

\* Service::set_filters(): every filter has to exist.
Service_set_filters(o, fl) ==
    IF fl \subseteq o.filter_defs
    THEN [o EXCEPT !.filters = fl, !.rval = TRUE, !.error = FALSE]
    ELSE [o EXCEPT !.rval = FALSE, !.error = FALSE]

UnlinkResults == {"ok", "ENOENT", "EACCES"}

ObjUnchanged ==
    UNCHANGED <<router_vars, service, server, dcb, runtime, now, mon, hintses>>

CreateListener(name, addr, port, ok, created, listens) ==
    /\ objects.active
    /\ objects' = [runtime_create_listener(objects, name, addr, port, ok,
                                          created, listens)
                   EXCEPT !.fn = "create_listener"]
    /\ ObjUnchanged

DestroyListener(name, unlink) ==
    /\ objects.active
    /\ objects' = [runtime_destroy_listener(objects, name, unlink)
                   EXCEPT !.fn = "destroy_listener"]
    /\ ObjUnchanged

DestroyServer(s, unlink) ==
    /\ objects.server_active[s]
    /\ objects' = [runtime_destroy_server(objects, s, unlink)
                   EXCEPT !.fn = "destroy_server"]
    /\ ObjUnchanged

DestroyFilter(f) ==
    /\ f \in objects.filter_defs
    /\ objects' = [runtime_destroy_filter(objects, f)
                   EXCEPT !.fn = "destroy_filter"]
    /\ ObjUnchanged

DestroyService(sessions) ==
    /\ objects.active
    /\ objects' = [runtime_destroy_service(objects, sessions)
                   EXCEPT !.fn = "destroy_service"]
    /\ ObjUnchanged

DestroyMonitor(unlink) ==
    /\ objects.monitor_active
    /\ objects' = [runtime_destroy_monitor(objects, unlink)
                   EXCEPT !.fn = "destroy_monitor"]
    /\ ObjUnchanged

RemoveBackend(s) ==
    /\ objects.active
    /\ s \in objects.dbref
    /\ objects' = [serviceRemoveBackend(objects, s)
                   EXCEPT !.fn = "remove_backend"]
    /\ ObjUnchanged

SetFilters(fl) ==
    /\ objects.active
    /\ objects' = [Service_set_filters(objects, fl)
                   EXCEPT !.fn = "set_filters"]
    /\ ObjUnchanged

NextObjects ==
    \/ \E name \in ListenerNames, addr \in ListenerAddrs,
          port \in ListenerPorts, ok, created, listens \in BOOLEAN :
           CreateListener(name, addr, port, ok, created, listens)
    \/ \E name \in ListenerNames, unlink \in UnlinkResults :
           DestroyListener(name, unlink)
    \/ \E s \in ObjServers, unlink \in UnlinkResults : DestroyServer(s, unlink)
    \/ \E f \in ObjFilters : DestroyFilter(f)
    \/ \E sessions \in BOOLEAN : DestroyService(sessions)
    \/ \E unlink \in UnlinkResults : DestroyMonitor(unlink)
    \/ \E s \in ObjServers : RemoveBackend(s)
    \/ \E fl \in SUBSET ObjFilters : SetFilters(fl)

SpecObjects == InitObjects /\ [][NextObjects]_vars

\* ------------------------------------------------------------------ C38
\* A listener is created with the name, or with the address and port (or
\* the socket), of a listener that exists.
DuplicateListener(name, addr, port) ==
    \E l \in objects.listeners :
        \/ l.name = name
        \/ l.address = addr /\ (l.port = port \/ addr[1] = "/")

\* C38: the creation of a listener with the name, or the address and port
\* or socket, of a listener that exists fails with an error and leaves the
\* listeners as they are.
C38_DuplicateListenerRefused ==
    [][\A name \in ListenerNames, addr \in ListenerAddrs,
          port \in ListenerPorts, ok, created, listens \in BOOLEAN :
           CreateListener(name, addr, port, ok, created, listens)
           /\ DuplicateListener(name, addr, port)
           => /\ ~objects'.rval
              /\ objects'.error
              /\ objects'.listeners = objects.listeners]_vars

\* No two listeners have the same name, or the same address and port.
NoDuplicateListeners ==
    \A l1, l2 \in objects.listeners :
        l1 # l2 => /\ l1.name # l2.name
                   /\ ~(l1.address = l2.address /\ l1.port = l2.port)

\* ------------------------------------------------------------------ C39
\* The object a destroy request is for is referenced.
ServerReferenced(s) ==
    \/ objects.listed /\ s \in objects.dbref
    \/ objects.monitor_active /\ s \in objects.monitored

\* The request was refused with an error; the objects are as they were.
Refused ==
    /\ ~objects'.rval
    /\ objects'.error
    /\ \E fn \in {"destroy_server", "destroy_filter", "destroy_monitor",
                  "destroy_service"} :
           objects' = [objects EXCEPT !.fn = fn, !.rval = FALSE,
                                      !.error = TRUE]

\* C39: a destroy request for a server that a service or the monitor uses,
\* for a filter or a monitor that the service uses, or for a service with
\* listeners, active servers or filters, is refused with an error and
\* changes nothing.
C39_ReferencedNotDestroyed ==
    [][/\ \A s \in ObjServers, unlink \in UnlinkResults :
              DestroyServer(s, unlink) /\ ServerReferenced(s) => Refused
       /\ \A f \in ObjFilters :
              DestroyFilter(f) /\ objects.listed /\ f \in objects.filters
              => Refused
       /\ \A unlink \in UnlinkResults :
              DestroyMonitor(unlink) /\ objects.listed /\ objects.m_monitor
              => Refused
       /\ \A sessions \in BOOLEAN :
              DestroyService(sessions)
              /\ (objects.listeners # {} \/ objects.dbref # {}
                  \/ objects.filters # {})
              => Refused]_vars

\* C39 witness: a destroy request has been refused and the service, which
\* has a filter and nothing else, is still active.
C39_Witness ==
    /\ objects.fn = "destroy_service"
    /\ objects.error
    /\ ~objects.rval
    /\ objects.active
    /\ objects.filters # {}
    /\ objects.listeners = {}
    /\ objects.dbref = {}
    /\ ~objects.m_monitor
    /\ \A s \in ObjServers : ~objects.server_active[s]
    /\ ~objects.monitor_active

\* ------------------------------------------------------- the hint router
\* The roles of the servers: a master and a slave.
HintRole == [b \in HintBackends |-> IF b = "h1" THEN "master" ELSE "slave"]

HintActions == {"HINT_ROUTE_TO_MASTER", "HINT_ROUTE_TO_SLAVE",
                "HINT_ROUTE_TO_NAMED_SERVER", "HINT_ROUTE_TO_ALL"}

\* The hint of a packet: none, or one with the server it names.
NoHint == [type |-> "none", data |-> ""]
Hints == {NoHint} \cup [type : HintActions, data : {"h2"}]

\* The backends in the order of m_backends (a map by name).
HintBackendSeq == <<"h1", "h2">>

\* HintRouterSession::update_connections()
update_connections(hs) ==
    LET masters == SelectSeq(HintBackendSeq,
                             LAMBDA b : HintRole[b] = "master")
        slaves == SelectSeq(HintBackendSeq, LAMBDA b : HintRole[b] = "slave")
    IN  [hs EXCEPT !.m_master = IF masters = <<>> THEN "none"
                                ELSE Head(masters),
                   !.m_slaves = slaves]

\* Endpoint::routeQuery(): the statement is written to the backend, which
\* will answer it unless it is of a kind that has no reply.  ok: the write
\* succeeds.
endpoint_routeQuery(hs, b, q, ok) ==
    IF ok
    THEN [hs EXCEPT !.pending[b] = IF q.reply THEN Append(@, q.id) ELSE @,
                    !.written[q.id] = @ + 1,
                    !.rv = TRUE]
    ELSE [hs EXCEPT !.rv = FALSE]

\* route_to_slave(): the slaves are tried in turn, from the one whose turn
\* it is; with none written to, once more after update_connections().
RECURSIVE try_slaves(_, _, _, _, _)
try_slaves(hs, q, wok, curr, limit) ==
    IF curr = limit
    THEN [hs EXCEPT !.rv = FALSE]
    ELSE LET size == Len(hs.m_slaves)
             candidate == hs.m_slaves[(curr % size) + 1]
             w == endpoint_routeQuery(hs, candidate, q, candidate \in wok)
         IN  IF w.rv THEN w ELSE try_slaves(hs, q, wok, curr + 1, limit)

route_to_slave(hs, q, wok) ==
    LET size == Len(hs.m_slaves)
        begin == IF size = 0 THEN 0 ELSE hs.m_n_routed_to_slave % size
        w1 == IF size = 0 THEN [hs EXCEPT !.rv = FALSE]
              ELSE try_slaves(hs, q, wok, begin, begin + size)
        u == update_connections(w1)
        size2 == Len(u.m_slaves)
        begin2 == IF size2 = 0 THEN 0 ELSE u.m_n_routed_to_slave % size2
        w2 == IF w1.rv THEN w1
              ELSE IF size2 = 0 THEN [u EXCEPT !.rv = FALSE]
              ELSE try_slaves(u, q, wok, begin2, begin2 + size2)
    IN  IF w2.rv
        THEN [w2 EXCEPT !.m_n_routed_to_slave = @ + 1, !.target[q.id] = "one"]
        ELSE w2

\* The Writer of HINT_ROUTE_TO_ALL: a clone of the packet to every backend.
RECURSIVE write_all(_, _, _, _)
write_all(hs, q, wok, bs) ==
    IF bs = <<>>
    THEN hs
    ELSE write_all([endpoint_routeQuery(hs, Head(bs), q, Head(bs) \in wok)
                       EXCEPT !.rv = hs.rv],
                   q, wok, Tail(bs))

\* route_by_hint(), case HINT_ROUTE_TO_ALL
route_to_all(hs, q, wok) ==
    LET w == write_all(hs, q, wok, HintBackendSeq)
        n_writes == w.written[q.id] - hs.written[q.id]
        success == n_writes = Len(HintBackendSeq)
    IN  [w EXCEPT !.m_surplus_replies = IF n_writes # 0 THEN n_writes - 1
                                        ELSE @,
                  !.target[q.id] = IF success THEN "all"
                                   ELSE IF n_writes # 0 THEN "part" ELSE @,
                  !.rv = success]

\* A statement that write_all() wrote to some backends stays what it is.
route_one(hs, w, q) ==
    IF w.rv /\ hs.target[q.id] = "none"
    THEN [w EXCEPT !.target[q.id] = "one"]
    ELSE w

\* HintRouterSession::route_by_hint()
route_by_hint(hs, q, hint, wok) ==
    IF hint.type = "HINT_ROUTE_TO_MASTER"
    THEN LET u == IF hs.m_master # "none"
                     /\ HintRole[hs.m_master] = "master"
                  THEN hs ELSE update_connections(hs)
         IN  IF u.m_master # "none"
             THEN route_one(hs, endpoint_routeQuery(u, u.m_master, q,
                                                    u.m_master \in wok), q)
             ELSE [u EXCEPT !.rv = FALSE]
    ELSE IF hint.type = "HINT_ROUTE_TO_SLAVE"
    THEN route_one(hs, route_to_slave(hs, q, wok), q)
    ELSE IF hint.type = "HINT_ROUTE_TO_NAMED_SERVER"
    THEN IF hint.data \in HintBackends
         THEN route_one(hs, endpoint_routeQuery(hs, hint.data, q,
                                                hint.data \in wok), q)
         ELSE [hs EXCEPT !.rv = FALSE]
    ELSE IF hint.type = "HINT_ROUTE_TO_ALL"
    THEN route_to_all(hs, q, wok)
    ELSE [hs EXCEPT !.rv = FALSE]

\* HintRouterSession::routeQuery(): the hint of the packet, then the
\* default action of the router.  A statement that cannot be routed ends the
\* session.
HintRouterSession_routeQuery(hs, q, hint, wok) ==
    LET w1 == IF hint.type # "none"
              THEN route_by_hint(hs, q, hint, wok)
              ELSE [hs EXCEPT !.rv = FALSE]
        w2 == IF w1.rv
              THEN w1
              ELSE route_by_hint(w1, q,
                                 [type |-> hs.default_action,
                                  data |-> hs.default_server], wok)
    IN  IF w2.rv THEN w2 ELSE [w2 EXCEPT !.open = FALSE]

\* HintRouterSession::clientReply(): the reply of backend b to the
\* statement it has had longest.
HintRouterSession_clientReply(hs, b) ==
    LET id == Head(hs.pending[b])
        w == [hs EXCEPT !.pending[b] = Tail(@)]
    IN  IF hs.m_surplus_replies = 0
        THEN [w EXCEPT !.fwd[id] = @ + 1]
        ELSE [w EXCEPT !.m_surplus_replies = @ - 1, !.dis[id] = @ + 1]

\* A session of each default action; the constructor has called
\* update_connections().
InitHint ==
    /\ NoRouterSession
    /\ service = NoService
    /\ server = [b \in Servers |-> NewServer]
    /\ dcb = NoDcb
    /\ runtime = NoAlter
    /\ now = maxscale_started
    /\ mon = NoManualCmd
    /\ objects = NoObjects
    /\ \E a \in HintActions, d \in HintBackends :
           hintses = update_connections(
                         [NoHintSession EXCEPT !.open = TRUE,
                                               !.default_action = a,
                                               !.default_server = d])

HintUnchanged ==
    UNCHANGED <<router_vars, service, server, dcb, runtime, now, mon, objects>>

\* A statement of the client arrives, with a reply to come or, like
\* COM_STMT_CLOSE, without one.
HintClientStmt(hint, reply, wok) ==
    /\ hintses.open
    /\ hintses.sent < MaxHintStmts
    /\ LET q == [id |-> hintses.sent + 1, reply |-> reply]
       IN  hintses' = HintRouterSession_routeQuery(
                          [hintses EXCEPT !.sent = @ + 1], q, hint, wok)
    /\ HintUnchanged

\* The reply of a backend arrives, whole (resultsets are collected).
HintBackendReply(b) ==
    /\ hintses.open
    /\ hintses.pending[b] # <<>>
    /\ hintses' = HintRouterSession_clientReply(hintses, b)
    /\ HintUnchanged

\* handleError(): the session does not go on without a backend.
HintBackendFail(b) ==
    /\ hintses.open
    /\ hintses' = [hintses EXCEPT !.open = FALSE, !.rv = FALSE]
    /\ HintUnchanged

NextHint ==
    \/ \E hint \in Hints, reply \in BOOLEAN, wok \in SUBSET HintBackends :
           HintClientStmt(hint, reply, wok)
    \/ \E b \in HintBackends : HintBackendReply(b)
    \/ \E b \in HintBackends : HintBackendFail(b)

SpecHint == InitHint /\ [][NextHint]_vars

\* ------------------------------------------------------------------ C40
\* Every reply to statement i has arrived.
HintAnswered(i) ==
    /\ hintses.open
    /\ i <= hintses.sent
    /\ \A b \in HintBackends :
           \A k \in DOMAIN hintses.pending[b] : hintses.pending[b][k] # i

\* C40: once the replies to a statement that was routed to all n backends
\* have arrived, one of them has been forwarded and n - 1 discarded (a
\* statement of a kind that has no reply has none of either); no reply to a
\* statement that was routed to one backend is ever discarded.
C40_OneReplyOfAll ==
    \A i \in 1..MaxHintStmts :
        /\ hintses.target[i] = "all" /\ HintAnswered(i)
           => \/ hintses.fwd[i] = 1
                 /\ hintses.dis[i] = hintses.written[i] - 1
              \/ hintses.fwd[i] + hintses.dis[i] = 0
        /\ hintses.target[i] = "one" => hintses.dis[i] = 0

==============================================================================
